---- MODULE Spec2Model ----
(***************************************************************************)
(* Crawl-and-verify engine of UI-alert-ALLEN (scraper.py): the persistence *)
(* layer (DatabaseManager), the orchestrator (ScraperEngine), the link     *)
(* resolver and the detail-page verifier (BasePageHandler).                *)
(*                                                                         *)
(* Each part of the program has its own specification over the shared      *)
(* variables; the variables a specification does not use stay at their     *)
(* initial values.                                                         *)
(*   SpecDb  two writer threads calling DatabaseManager.save_batch,        *)
(*           statement by statement, on one SQLite store                   *)
(*   Spec    ScraperEngine.run: the task list, the two viewport passes,    *)
(*           the dispatch of every task, the join and the validation stage *)
(*   SpecFair  Spec with the fairness the thread scheduler gives           *)
(*   SpecPrice the two price normalizations, clean_price of the scraper    *)
(*           and _clean_price of the price rule, applied to one price      *)
(*   SpecRules BaseValidator.validate over a chain of validators, call by  *)
(*           call                                                          *)
(*   SpecCard  one card of a listing page: extract_cta_link, then          *)
(*           verify_pdp, statement by statement, and verify_pdp called on  *)
(*           its own with any arguments                                    *)
(*   SpecScrape  the handlers' scrape (HomepageHandler, PLPHandler,        *)
(*           StreamHandler) card by card in both viewport passes, each     *)
(*           scope's save_batch, then validate_all_courses and get_summary *)
(*   SpecParse  parse_urls on a task file of any lines, and the task list  *)
(*           submitted to the two viewport passes                          *)
(*                                                                         *)
(* Text is a sequence of tokens, each an indivisible piece of a string:    *)
(* "[home]" is <<"[", "home", "]">>. The operations on text look at whole  *)
(* tokens only.                                                            *)
(***************************************************************************)
EXTENDS Integers, Sequences, FiniteSets, TLC

\* ------------------------------------------------------------------------
\* Bounds of the model
\* ------------------------------------------------------------------------

\* longest batch a handler hands to save_batch
MaxBatch == 2
\* most rows the store holds, committed or pending (guards StartSave)
MaxRows == 2
\* most lines of the task file
MaxLines == 4
\* longest time one read of the page URL takes, in tenths of a second
MaxReadTime == 1
\* most digits of a price
MaxDigits == 2
\* most signs, blanks and commas put into a price
MaxMarks == 3
\* most validators in a chain
MaxChain == 3

\* ------------------------------------------------------------------------
\* Values
\* ------------------------------------------------------------------------

\* the labels of viewport_configs, in list order
ViewportLabels == <<"desktop", "mobile">>

Viewports == {ViewportLabels[k] : k \in 1..Len(ViewportLabels)}

\* the value Python's dict.get and SQLite's DEFAULT give a missing viewport
DefaultViewport == "desktop"

NoLock == "none"

\* what a handler reads off one card and its detail page: name, link, price.
\* The pool holds two cards of one key with different prices and a card of
\* another key.
CardPool ==
  { <<"JEE Main", <<"https", "://allen.in", "/", "jee">>, "10000">>,
    <<"JEE Main", <<"https", "://allen.in", "/", "jee">>, "15000">>,
    <<"NEET", <<"https", "://allen.in", "/", "neet">>, "10000">> }

ListingUrl == <<"https", "://allen.in", "/", "online-coaching-jee">>

\* ------------------------------------------------------------------------
\* Records and rows
\* ------------------------------------------------------------------------

\* the dict a handler appends to scraped_batch
CourseRecord(url, name, link, card_price, pdp_price, cta_status, is_broken, mismatch, viewport) ==
  [ base_url |-> url, course_name |-> name, cta_link |-> link,
    price |-> card_price, pdp_price |-> pdp_price, cta_status |-> cta_status,
    is_broken |-> is_broken, price_mismatch |-> mismatch, viewport |-> viewport ]

\* item.get(key, default)
Get(item, key, default) == IF key \in DOMAIN item THEN item[key] ELSE default
\* KeyMatch with the viewport left out of the WHERE clause
KeyMatchAnyViewport(row, item) ==
  /\ row.course_name = item.course_name
  /\ row.cta_link = item.cta_link

\* the WHERE clause of save_batch's SELECT
KeyMatch(row, item) ==
  /\ row.course_name = item.course_name
  /\ row.cta_link = item.cta_link
  /\ row.viewport = Get(item, "viewport", DefaultViewport)

\* cursor.fetchone() of the SELECT over the rows the connection sees
FetchOne(rows, item) == \E k \in 1..Len(rows) : KeyMatch(rows[k], item)
\* InsertRow with the viewport column left to its DEFAULT
InsertRowNoViewport(item) ==
  [ base_url |-> item.base_url, course_name |-> item.course_name,
    cta_link |-> item.cta_link, price |-> item.price,
    pdp_price |-> Get(item, "pdp_price", "N/A"),
    cta_status |-> Get(item, "cta_status", "N/A"),
    is_broken |-> Get(item, "is_broken", 0),
    price_mismatch |-> Get(item, "price_mismatch", 0),
    viewport |-> DefaultViewport ]

\* the row the INSERT statement writes
InsertRow(item) ==
  [ base_url |-> item.base_url, course_name |-> item.course_name,
    cta_link |-> item.cta_link, price |-> item.price,
    pdp_price |-> Get(item, "pdp_price", "N/A"),
    cta_status |-> Get(item, "cta_status", "N/A"),
    is_broken |-> Get(item, "is_broken", 0),
    price_mismatch |-> Get(item, "price_mismatch", 0),
    viewport |-> Get(item, "viewport", DefaultViewport) ]

\* ------------------------------------------------------------------------
\* State
\* ------------------------------------------------------------------------

VARIABLES
  db,         \* the committed rows of table courses, in id order
  lock,       \* the connection holding SQLite's write lock, or NoLock
  wpc,        \* per writer: where it is in save_batch
  courses,    \* per writer: the argument of the running save_batch call
  idx,        \* per writer: the index of the item the for loop is at
  found,      \* per writer: the result of the last fetchone()
  txn,        \* per writer: the rows inserted and not yet committed
  new_items,  \* per writer: the counter new_items
  resave      \* per writer: the running (or last) call repeats the call before

dbVars == <<db, lock, wpc, courses, idx, found, txn, new_items, resave>>

VARIABLES
  mpc,          \* where ScraperEngine.run is
  tasks,        \* the list parse_urls returned
  sessions,     \* who has entered sync_playwright(): "main" or a worker's label
  ppc,          \* per worker: where its _run_viewport call is
  tix,          \* per worker: the index of the task the for loop is at
  invoked,      \* per worker: the scrape calls made, <<task index, handler class>>
  caught,       \* per worker: the tasks whose error line 482 logged
  skipped,      \* per worker: the tasks line 484 reported as having no handler
  handed,       \* per worker: the records handed to save_batch, <<task index, record>>
  joined,       \* the workers whose future the as_completed loop has taken
  pass_errors,  \* the labels line 520 logged as failed passes
  validated,    \* validate_all_courses has been called
  reported      \* the report has been saved

engineVars == <<mpc, tasks, sessions, ppc, tix, invoked, caught, skipped, handed,
                joined, pass_errors, validated, reported>>

VARIABLES
  page_url,     \* self.page.url: the URL the page is at
  nav_log,      \* the navigations the page has made, in order
  click_log,    \* the clicks made on the page, in order
  attempts,     \* the calls on the page that navigate, click or fail, in order
  cpc,          \* where the handling of the card is
  card,         \* the card handed to extract_cta_link
  tab_el,       \* whether a scope control was handed to extract_cta_link
  pending,      \* the navigation the click has started and that has not landed
  clock,        \* time.time(), in tenths of a second
  start,        \* extract_cta_link's start
  polls,        \* the URL reads the poll loop has made
  current_url,  \* extract_cta_link's current_url
  final_link,   \* extract_cta_link's final_link
  link,         \* what extract_cta_link returned
  pdp_url,      \* verify_pdp's pdp_url
  original_url, \* verify_pdp's original_url
  card_price,   \* verify_pdp's card_price
  found_pdp,    \* verify_pdp's is_broken, pdp_price, price_mismatch, cta_status
  verdict       \* what verify_pdp returned

cardVars == <<page_url, nav_log, click_log, attempts, cpc, card, tab_el, pending, clock, start,
              polls, current_url, final_link, link, pdp_url, original_url, card_price,
              found_pdp, verdict>>

VARIABLES
  npc,          \* where the normalization of one price is
  bare,         \* the digits of the price
  formatted,    \* the price text as a page shows it
  cleaned       \* what clean_price and _clean_price made of both texts

priceVars == <<npc, bare, formatted, cleaned>>

VARIABLES
  vpc,          \* where BaseValidator.validate is
  chain,        \* the validators, linked by next_validator in this order
  course_data,  \* the record handed to validate
  frames,       \* the issues list of each call of validate that is open
  rule_log,     \* the validators whose _validate was called, in order
  returned_issues  \* what the outermost validate returned

ruleVars == <<vpc, chain, course_data, frames, rule_log, returned_issues>>

VARIABLES
  rpc,            \* where the run is: before the passes, in them, validated, summarised
  todo,           \* the tasks the passes work through, <<tag, url>> each
  site,           \* the listing page the site serves at a task's URL
  hpc,            \* per worker: where its pass is
  tno,            \* per worker: the index of the task the for loop is at
  handler_of,     \* per worker: the handler instance of the task
  scopes,         \* per worker: the tabs or pills scrape found, with their controls
  s_idx,          \* per worker: the index of the scope the outer loop is at
  n_cards,        \* per worker: cards.count(), as range() took it
  c_idx,          \* per worker: the index of the card the inner loop is at
  cur,            \* per worker: name, card_price, link and verdict of the card at hand
  scraped_batch,  \* per worker: scraped_batch
  active,         \* per worker: the card list the page of its session shows
  hlog,           \* per worker: what its pass did, in order
  validation_results,  \* ValidationService.validation_results
  summary         \* what get_summary returned

scrapeVars == <<rpc, todo, site, hpc, tno, handler_of, scopes, s_idx, n_cards, c_idx, cur,
                scraped_batch, active, hlog, validation_results, summary>>

VARIABLES
  fpc,          \* where the run is with its task file: not read, read, passes submitted
  urls_file,    \* the file at self.urls_file
  parsed,       \* what parse_urls returned to run
  given         \* per worker: the tasks argument of its _run_viewport call, once submitted

parseVars == <<fpc, urls_file, parsed, given>>

\* the variables of the statement-level store that the engine leaves alone
dbOnlyVars == <<lock, wpc, courses, idx, found, txn, new_items, resave>>

\* what each part of the program leaves alone
notDb == <<engineVars, cardVars, priceVars, ruleVars, scrapeVars, parseVars>>

notEngine == <<dbOnlyVars, cardVars, priceVars, ruleVars, scrapeVars, parseVars>>

notCard == <<dbVars, engineVars, priceVars, ruleVars, scrapeVars, parseVars>>

notPrice == <<dbVars, engineVars, cardVars, ruleVars, scrapeVars, parseVars>>

notRules == <<dbVars, engineVars, cardVars, priceVars, scrapeVars, parseVars>>

notScrape == <<dbOnlyVars, engineVars, cardVars, priceVars, ruleVars, parseVars>>

notParse == <<dbVars, engineVars, cardVars, priceVars, ruleVars, scrapeVars>>

vars == <<dbVars, engineVars, cardVars, priceVars, ruleVars, scrapeVars, parseVars>>

\* ------------------------------------------------------------------------
\* DatabaseManager.save_batch, statement by statement
\* ------------------------------------------------------------------------

\* the records one handler of viewport v can hand over
Items(v) ==
  { CourseRecord(ListingUrl, c[1], c[2], c[3], c[3], "Not Found", 0, 0, v) : c \in CardPool }

SeqsUpTo(S, n) == UNION { [1..m -> S] : m \in 0..n }

Batches(v) == SeqsUpTo(Items(v), MaxBatch)

\* the rows a running call of writer w may still add
InFlight(w) == IF wpc[w] = "idle" THEN 0 ELSE Len(courses[w])

\* the items of a batch whose key the committed store does not hold
NewTo(batch) == Cardinality({k \in 1..Len(batch) : ~FetchOne(db, batch[k])})
\* Visible when the dedup check reads the committed rows only
VisibleCommitted(w) == db

\* the rows writer w's connection sees: the committed rows, and inside its
\* own transaction the rows it has inserted
Visible(w) == db \o txn[w]

\* save_batch(courses) is called: the connection is opened
StartSave(w, batch) ==
  /\ wpc[w] \in {"idle", "returned"}
  /\ wpc[w] = "returned" => batch = courses[w]
  /\ Len(db) + NewTo(batch) <= MaxRows
  /\ \A o \in Viewports \ {w} :
       InFlight(o) > 0 => Len(db) + InFlight(o) + Len(batch) <= MaxRows
  /\ wpc' = [wpc EXCEPT ![w] = IF batch = <<>> THEN "commit" ELSE "select"]
  /\ resave' = [resave EXCEPT ![w] = (wpc[w] = "returned")]
  /\ courses' = [courses EXCEPT ![w] = batch]
  /\ idx' = [idx EXCEPT ![w] = 1]
  /\ new_items' = [new_items EXCEPT ![w] = 0]
  /\ found' = [found EXCEPT ![w] = FALSE]
  /\ UNCHANGED <<db, lock, txn>>
  /\ UNCHANGED notDb

\* cursor.execute('SELECT id ...') and cursor.fetchone()
Select(w) ==
  /\ wpc[w] = "select"
  /\ found' = [found EXCEPT ![w] = FetchOne(Visible(w), courses[w][idx[w]])]
  /\ wpc' = [wpc EXCEPT ![w] = "insert"]
  /\ UNCHANGED <<db, lock, courses, idx, txn, new_items, resave>>
  /\ UNCHANGED notDb

NextItem(w) == IF idx[w] = Len(courses[w]) THEN "commit" ELSE "select"

\* if not cursor.fetchone(): the INSERT, which opens the transaction and
\* waits for the write lock; then the next item
Insert(w) ==
  /\ wpc[w] = "insert"
  /\ ~found[w]
  /\ lock \in {NoLock, w}
  /\ lock' = w
  /\ txn' = [txn EXCEPT ![w] = Append(@, InsertRow(courses[w][idx[w]]))]
  /\ new_items' = [new_items EXCEPT ![w] = @ + 1]
  /\ idx' = [idx EXCEPT ![w] = @ + 1]
  /\ wpc' = [wpc EXCEPT ![w] = NextItem(w)]
  /\ UNCHANGED <<db, courses, found, resave>>
  /\ UNCHANGED notDb

\* a save that overwrites the stored row of an existing key with the incoming
\* record
SkipUpdating(w) ==
  /\ wpc[w] = "insert"
  /\ found[w]
  /\ db' = [k \in DOMAIN db |->
             IF KeyMatch(db[k], courses[w][idx[w]])
             THEN InsertRow(courses[w][idx[w]]) ELSE db[k]]
  /\ idx' = [idx EXCEPT ![w] = @ + 1]
  /\ wpc' = [wpc EXCEPT ![w] = NextItem(w)]
  /\ found' = [found EXCEPT ![w] = FALSE]
  /\ UNCHANGED <<lock, courses, txn, new_items, resave>>
  /\ UNCHANGED notDb

\* the row exists: nothing is written; the next item
Skip(w) ==
  /\ wpc[w] = "insert"
  /\ found[w]
  /\ idx' = [idx EXCEPT ![w] = @ + 1]
  /\ wpc' = [wpc EXCEPT ![w] = NextItem(w)]
  /\ found' = [found EXCEPT ![w] = FALSE]
  /\ UNCHANGED <<db, lock, courses, txn, new_items, resave>>
  /\ UNCHANGED notDb

\* conn.commit(): the pending rows become visible to every connection
Commit(w) ==
  /\ wpc[w] = "commit"
  /\ db' = db \o txn[w]
  /\ txn' = [txn EXCEPT ![w] = <<>>]
  /\ lock' = IF lock = w THEN NoLock ELSE lock
  /\ wpc' = [wpc EXCEPT ![w] = "returned"]
  /\ UNCHANGED <<courses, idx, found, new_items, resave>>
  /\ UNCHANGED notDb

\* the handler that made the call goes on to other work
Return(w) ==
  /\ wpc[w] = "returned"
  /\ wpc' = [wpc EXCEPT ![w] = "idle"]
  /\ courses' = [courses EXCEPT ![w] = <<>>]
  /\ idx' = [idx EXCEPT ![w] = 1]
  /\ new_items' = [new_items EXCEPT ![w] = 0]
  /\ resave' = [resave EXCEPT ![w] = FALSE]
  /\ UNCHANGED <<db, lock, found, txn>>
  /\ UNCHANGED notDb

DbInit ==
  /\ db = <<>>
  /\ lock = NoLock
  /\ wpc = [w \in Viewports |-> "idle"]
  /\ courses = [w \in Viewports |-> <<>>]
  /\ idx = [w \in Viewports |-> 1]
  /\ found = [w \in Viewports |-> FALSE]
  /\ txn = [w \in Viewports |-> <<>>]
  /\ new_items = [w \in Viewports |-> 0]
  /\ resave = [w \in Viewports |-> FALSE]

NextDb ==
  \/ \E w \in Viewports : \E batch \in Batches(w) : StartSave(w, batch)
  \/ \E w \in Viewports : Select(w)
  \/ \E w \in Viewports : Insert(w)
  \/ \E w \in Viewports : Skip(w)
  \/ \E w \in Viewports : Commit(w)
  \/ \E w \in Viewports : Return(w)

\* ------------------------------------------------------------------------
\* Text
\* ------------------------------------------------------------------------

Whitespace == {" ", "\t"}

RECURSIVE LStrip(_, _)
LStrip(s, chars) ==
  IF s # <<>> /\ Head(s) \in chars THEN LStrip(Tail(s), chars) ELSE s

RECURSIVE RStrip(_, _)
RStrip(s, chars) ==
  IF s # <<>> /\ s[Len(s)] \in chars THEN RStrip(SubSeq(s, 1, Len(s) - 1), chars) ELSE s

\* a strip that takes nothing off
StripNothing(s, chars) == s

\* str.strip(chars)
Strip(s, chars) == RStrip(LStrip(s, chars), chars)

\* str.upper() of one token
UpperToken(t) ==
  CASE t = "home" -> "HOME"
    [] t = "stream_pages" -> "STREAM_PAGES"
    [] t = "listing" -> "LISTING"
    [] OTHER -> t

\* str.upper()
Upper(s) == [k \in 1..Len(s) |-> UpperToken(s[k])]

\* Python's None, and a value that is not None
None == [none |-> TRUE]

Some(v) == [none |-> FALSE, value |-> v]

\* the truth value Python gives an optional string
Truthy(o) == ~o.none /\ o.value # <<>>

\* ------------------------------------------------------------------------
\* ScraperEngine.parse_urls
\* ------------------------------------------------------------------------

\* the task file: absent (os.path.exists is false), or its lines
MissingFile == [exists |-> FALSE]

FileOf(lines) == [exists |-> TRUE, lines |-> lines]

\* re.match(r'^\[(.*?)\]$', line)
HeaderMatch(line) == Len(line) >= 2 /\ line[1] = "[" /\ line[Len(line)] = "]"

\* header_match.group(1)
Group1(line) == SubSeq(line, 2, Len(line) - 1)

\* line.startswith('http')
StartsWithHttp(line) == line # <<>> /\ line[1] \in {"http", "https"}

\* the for loop over the lines of the file
RECURSIVE ParseLines(_, _, _)
ParseLines(lines, current_type, acc) ==
  IF lines = <<>> THEN acc
  ELSE LET line == Strip(Head(lines), Whitespace)
           rest == Tail(lines)
       IN IF line = <<>> THEN ParseLines(rest, current_type, acc)
          ELSE IF HeaderMatch(line)
            THEN ParseLines(rest, Some(Upper(Group1(line))), acc)
          ELSE IF StartsWithHttp(line) /\ Truthy(current_type)
            THEN ParseLines(rest, current_type, Append(acc, <<current_type.value, line>>))
          ELSE ParseLines(rest, current_type, acc)

parse_urls(file) == IF ~file.exists THEN <<>> ELSE ParseLines(file.lines, None, <<>>)

\* the lines a task file is made of
LinePool ==
  { <<"[", "home", "]">>, <<"[", "PLP_PAGES", "]">>, <<"[", "stream_pages", "]">>,
    <<"[", "listing", "]">>, ListingUrl, <<" ">> }

Files == {MissingFile} \cup {FileOf(lines) : lines \in SeqsUpTo(LinePool, MaxLines)}

\* ------------------------------------------------------------------------
\* ScraperEngine: dispatch, the viewport passes, run
\* ------------------------------------------------------------------------

\* self.handler_map
handler_map ==
  (<<"HOME">> :> "HomepageHandler") @@ (<<"PLP_PAGES">> :> "PLPHandler")
    @@ (<<"STREAM_PAGES">> :> "StreamHandler")
\* Resolve with a fallback handler for an unknown tag
ResolveWithFallback(tag) ==
  IF tag \in DOMAIN handler_map THEN Some(handler_map[tag]) ELSE Some("PLPHandler")

\* self.handler_map.get(tag)
Resolve(tag) == IF tag \in DOMAIN handler_map THEN Some(handler_map[tag]) ELSE None

\* one worker for every entry of viewport_configs
Workers == DOMAIN ViewportLabels

Label(w) == ViewportLabels[w]
\* NewHandler when the call leaves viewport=label out
NewHandlerDefaultViewport(cls, viewport) ==
  [ cls |-> cls, viewport |-> DefaultViewport, processed_keys |-> {} ]

\* BasePageHandler.__init__, called as handler_class(page, self.db, viewport=label)
NewHandler(cls, viewport) ==
  [ cls |-> cls, viewport |-> viewport, processed_keys |-> {} ]

\* the one card every page of the site under test shows
SiteCard == <<"JEE Main", <<"https", "://allen.in", "/", "jee">>, "10000">>

\* the batch a handler's scrape(url) hands to save_batch when the page shows
\* SiteCard and its detail page shows the same price and no purchase button
ScrapedBatch(handler, url) ==
  << CourseRecord(url, SiteCard[1], SiteCard[2], SiteCard[3], SiteCard[3],
                  "Not Found", 0, 0, handler.viewport) >>

\* save_batch as one transaction
RECURSIVE SaveBatch(_, _)
SaveBatch(rows, batch) ==
  IF batch = <<>> THEN rows
  ELSE SaveBatch(IF FetchOne(rows, Head(batch)) THEN rows
                 ELSE Append(rows, InsertRow(Head(batch))),
                 Tail(batch))

Terminated == {"done", "failed"}

\* tasks = self.parse_urls(); if not tasks: return
Parse ==
  /\ mpc = "start"
  /\ \E file \in Files :
       /\ tasks' = parse_urls(file)
       /\ mpc' = IF tasks' = <<>> THEN "halted" ELSE "devices"
  /\ UNCHANGED <<db, sessions, ppc, tix, invoked, caught, skipped, handed,
                 joined, pass_errors, validated, reported>>
  /\ UNCHANGED notEngine

\* with sync_playwright() as p: mobile_kwargs = dict(p.devices[MOBILE_DEVICE]);
\* nothing catches what this raises
ResolveDevices ==
  /\ mpc = "devices"
  /\ sessions' = sessions \cup {"main"}
  /\ \/ mpc' = "submit"
     \/ mpc' = "crashed"
  /\ UNCHANGED <<db, tasks, ppc, tix, invoked, caught, skipped, handed,
                 joined, pass_errors, validated, reported>>
  /\ UNCHANGED notEngine

\* pool.submit(self._run_viewport, tasks, label, kwargs) for every viewport
Submit ==
  /\ mpc = "submit"
  /\ ppc' = [w \in Workers |-> "open"]
  /\ mpc' = "join"
  /\ UNCHANGED <<db, tasks, sessions, tix, invoked, caught, skipped, handed,
                 joined, pass_errors, validated, reported>>
  /\ UNCHANGED notEngine

\* sync_playwright(), launch, new_context, new_page: any of them may raise
OpenSession(w) ==
  /\ ppc[w] = "open"
  /\ sessions' = sessions \cup {Label(w)}
  /\ \/ ppc' = [ppc EXCEPT ![w] = "tasks"]
     \/ ppc' = [ppc EXCEPT ![w] = "failed"]
  /\ UNCHANGED <<db, mpc, tasks, tix, invoked, caught, skipped, handed,
                 joined, pass_errors, validated, reported>>
  /\ UNCHANGED notEngine

AfterTask(w) == IF tix[w] = Len(tasks) THEN "close" ELSE "tasks"

\* one turn of "for tag, url in tasks" for a tag the table knows: the handler
\* is made and scrape(url) runs; it returns, its batch saved, or raises, and
\* the error is logged
RunKnown(w, cls) ==
  LET handler == NewHandler(cls, Label(w))
      url == tasks[tix[w]][2]
      batch == ScrapedBatch(handler, url)
  IN /\ invoked' = [invoked EXCEPT ![w] = Append(@, <<tix[w], handler.cls>>)]
     /\ \/ /\ db' = SaveBatch(db, batch)
           /\ handed' = [handed EXCEPT ![w] =
                           @ \cup {<<tix[w], batch[k]>> : k \in 1..Len(batch)}]
           /\ UNCHANGED caught
        \/ /\ caught' = [caught EXCEPT ![w] = @ \cup {tix[w]}]
           /\ UNCHANGED <<db, handed>>
     /\ UNCHANGED skipped

\* the turn for a tag the table does not know: a warning, nothing else
RunUnknown(w) ==
  /\ skipped' = [skipped EXCEPT ![w] = @ \cup {tix[w]}]
  /\ UNCHANGED <<db, invoked, caught, handed>>
\* RunTask without the try/except around handler.scrape(url)
RunTaskUncaught(w) ==
  /\ ppc[w] = "tasks"
  /\ LET handler_class == Resolve(tasks[tix[w]][1])
     IN IF ~handler_class.none
          THEN /\ RunKnown(w, handler_class.value)
               /\ ppc' = [ppc EXCEPT ![w] =
                            IF caught'[w] # caught[w] THEN "failed" ELSE AfterTask(w)]
          ELSE /\ RunUnknown(w)
               /\ ppc' = [ppc EXCEPT ![w] = AfterTask(w)]
  /\ tix' = [tix EXCEPT ![w] = @ + 1]
  /\ UNCHANGED <<mpc, tasks, sessions, joined, pass_errors, validated, reported>>
  /\ UNCHANGED notEngine


RunTask(w) ==
  /\ ppc[w] = "tasks"
  /\ LET handler_class == Resolve(tasks[tix[w]][1])
     IN IF ~handler_class.none
          THEN RunKnown(w, handler_class.value)
          ELSE RunUnknown(w)
  /\ tix' = [tix EXCEPT ![w] = @ + 1]
  /\ ppc' = [ppc EXCEPT ![w] = AfterTask(w)]
  /\ UNCHANGED <<mpc, tasks, sessions, joined, pass_errors, validated, reported>>
  /\ UNCHANGED notEngine

\* browser.close() and the exit of the playwright session
CloseSession(w) ==
  /\ ppc[w] = "close"
  /\ \/ ppc' = [ppc EXCEPT ![w] = "done"]
     \/ ppc' = [ppc EXCEPT ![w] = "failed"]
  /\ UNCHANGED <<db, mpc, tasks, sessions, tix, invoked, caught, skipped, handed,
                 joined, pass_errors, validated, reported>>
  /\ UNCHANGED notEngine
\* Collect without the try/except around future.result()
CollectNoCatch(w) ==
  /\ mpc = "join"
  /\ w \notin joined
  /\ ppc[w] \in Terminated
  /\ joined' = joined \cup {w}
  /\ mpc' = IF ppc[w] = "failed" THEN "crashed" ELSE mpc
  /\ UNCHANGED <<db, tasks, sessions, ppc, tix, invoked, caught, skipped,
                 handed, pass_errors, validated, reported>>
  /\ UNCHANGED notEngine

\* one turn of "for future in as_completed(futures)": future.result() inside
\* try/except
Collect(w) ==
  /\ mpc = "join"
  /\ w \notin joined
  /\ ppc[w] \in Terminated
  /\ joined' = joined \cup {w}
  /\ pass_errors' = IF ppc[w] = "failed" THEN pass_errors \cup {Label(w)} ELSE pass_errors
  /\ UNCHANGED <<db, mpc, tasks, sessions, ppc, tix, invoked, caught, skipped,
                 handed, validated, reported>>
  /\ UNCHANGED notEngine

\* the loop has taken every future and the pool is shut down
PoolExit ==
  /\ mpc = "join"
  /\ joined = Workers
  /\ mpc' = "validate"
  /\ UNCHANGED <<db, tasks, sessions, ppc, tix, invoked, caught, skipped, handed,
                 joined, pass_errors, validated, reported>>
  /\ UNCHANGED notEngine

\* ValidationService(...).validate_all_courses() and log_results()
Validate ==
  /\ mpc = "validate"
  /\ validated' = TRUE
  /\ mpc' = "report"
  /\ UNCHANGED <<db, tasks, sessions, ppc, tix, invoked, caught, skipped, handed,
                 joined, pass_errors, reported>>
  /\ UNCHANGED notEngine

\* ReportGenerator(...).save()
Report ==
  /\ mpc = "report"
  /\ reported' = TRUE
  /\ mpc' = "done"
  /\ UNCHANGED <<db, tasks, sessions, ppc, tix, invoked, caught, skipped, handed,
                 joined, pass_errors, validated>>
  /\ UNCHANGED notEngine

EngineInit ==
  /\ mpc = "start"
  /\ tasks = <<>>
  /\ sessions = {}
  /\ ppc = [w \in Workers |-> "unborn"]
  /\ tix = [w \in Workers |-> 1]
  /\ invoked = [w \in Workers |-> <<>>]
  /\ caught = [w \in Workers |-> {}]
  /\ skipped = [w \in Workers |-> {}]
  /\ handed = [w \in Workers |-> {}]
  /\ joined = {}
  /\ pass_errors = {}
  /\ validated = FALSE
  /\ reported = FALSE

MainStep ==
  \/ Parse
  \/ ResolveDevices
  \/ Submit
  \/ \E w \in Workers : Collect(w)
  \/ PoolExit
  \/ Validate
  \/ Report

WorkerStep(w) ==
  \/ OpenSession(w)
  \/ RunTask(w)
  \/ CloseSession(w)

\* ------------------------------------------------------------------------
\* One card: extract_cta_link and verify_pdp, statement by statement
\* ------------------------------------------------------------------------

\* time.time() counts tenths of a second here
\* while time.time() - start < 8
PollTimeout == 80

\* time.sleep(0.5)
PollInterval == 5

\* time.sleep(2)
SettleTime == 20

NA == <<"N/A">>

NotFound == <<"Not Found">>

ErrorText == <<"Error">>

Origin == <<"https", "://allen.in">>

PdpUrl == Origin \o <<"/", "jee-course">>

\* a card element: the href of each anchor in it (None where the attribute
\* is absent), whether it holds a button, and where a click on the button
\* takes the page (None where it takes it nowhere)
Card(anchors, button, target) ==
  [anchors |-> anchors, button |-> button, target |-> target]

Cards ==
  { Card(<<Some(<<"#">>), Some(<<"/", "jee-course">>), Some(<<"/", "neet-course">>)>>,
         TRUE, Some(Origin \o <<"/", "neet-course">>)),
    Card(<<Some(<<"/", "online-coaching-jee">>)>>, TRUE, Some(PdpUrl)),
    Card(<<None, Some(<<>>), Some(<<"#">>), Some(<<"javascript", ":void(0)">>)>>,
         TRUE, Some(PdpUrl)),
    Card(<<Some(PdpUrl \o <<"/">>)>>, FALSE, None),
    Card(<<>>, TRUE, None),
    Card(<<>>, TRUE, Some(ListingUrl \o <<"/">>)),
    Card(<<>>, FALSE, None) }

\* href and not href.startswith('#') and 'javascript' not in href
Usable(href) ==
  /\ ~href.none
  /\ href.value # <<>>
  /\ href.value[1] # "#"
  /\ \A i \in DOMAIN href.value : href.value[i] # "javascript"

\* the href as it stands, whatever it starts with
AbsoluteUnresolved(href) == href

\* f"https://allen.in{href}" if href.startswith('/') else href
Absolute(href) == IF href[1] = "/" THEN Origin \o href ELSE href

\* the first anchor of the card with a usable href, from anchor i on
RECURSIVE FirstLink(_, _)
FirstLink(anchors, i) ==
  IF i > Len(anchors) THEN None
  ELSE IF Usable(anchors[i]) THEN Some(Absolute(anchors[i].value))
  ELSE FirstLink(anchors, i + 1)

\* the texts a price element can hold, one token a character
PriceTexts ==
  { NA, <<"R", " ", "9", ",", "5">>, <<"R", "9", "5">>, <<"R", "9", "9">>, <<"R">> }

\* what the price scan of the product page can come to
PdpPriceTexts == (PriceTexts \ {NA}) \cup {NotFound}

\* what the scan of the product page for a purchase control can come to
CtaStatuses == { NotFound, <<"Found (", "Enroll Now", ")">> }

Digits == {"0", "1", "2", "3", "4", "5", "6", "7", "8", "9"}

IsDigit(t) == t \in Digits

Has(s, t) == \E i \in DOMAIN s : s[i] = t

\* the price text with only the sentinels taken out, nothing reduced
clean_price_unreduced(price_str) ==
  IF price_str = <<>> \/ Has(price_str, "N/A") \/ Has(price_str, "Not Found")
  THEN None
  ELSE Some(price_str)

clean_price(price_str) ==
  IF price_str = <<>> \/ Has(price_str, "N/A") \/ Has(price_str, "Not Found")
  THEN None
  ELSE LET nums == SelectSeq(price_str, IsDigit)
       IN  IF nums # <<>> THEN Some(nums) ELSE None

\* the landing of a navigation asked to go to url: there, or redirected to
\* the listing page
Landings(url, listing) == {url, listing, listing \o <<"/">>}

\* a short circuit on the empty destination alone
ShortCircuitEmptyOnly(pdp, orig) == pdp = <<>>

\* if not pdp_url or pdp_url == original_url
ShortCircuit(pdp, orig) == pdp = <<>> \/ pdp = orig

NoCard == Card(<<>>, FALSE, None)

NoFinding ==
  [is_broken |-> 0, pdp_price |-> NotFound, price_mismatch |-> 0, cta_status |-> NotFound]

NoVerdict == <<>>

pageVars == <<page_url, nav_log, click_log>>

\* one call on the page: the method, the URL it was given or the page was
\* at, and whether it returned (TRUE) or raised (FALSE)
Attempt(op, url, ok) == [op |-> op, url |-> url, ok |-> ok]

resolverVars == <<card, tab_el, pending, start, polls, current_url, final_link, link>>

verifierVars == <<pdp_url, original_url, card_price, found_pdp, verdict>>

\* link = self.extract_cta_link(card, tab_el, tab_name): the scan of the
\* anchors, and the choice of the path
CallExtract(c, t) ==
  /\ cpc = "idle"
  /\ card' = c
  /\ tab_el' = t
  /\ LET direct == FirstLink(c.anchors, 1)
     IN  IF ~direct.none
         THEN /\ link' = direct.value
              /\ cpc' = "linked"
              /\ UNCHANGED current_url
         ELSE IF c.button
         THEN /\ current_url' = page_url
              /\ cpc' = "scroll"
              /\ UNCHANGED link
         ELSE /\ link' = page_url
              /\ cpc' = "linked"
              /\ UNCHANGED current_url
  /\ UNCHANGED attempts
  /\ UNCHANGED <<pageVars, pending, clock, start, polls, final_link, verifierVars>>
  /\ UNCHANGED notCard

\* cta.first.scroll_into_view_if_needed()
Scroll ==
  /\ cpc = "scroll"
  /\ \/ /\ cpc' = "click"
        /\ UNCHANGED attempts
     \/ /\ cpc' = "except"
        /\ attempts' = Append(attempts, Attempt("scroll", page_url, FALSE))
  /\ UNCHANGED <<pageVars, resolverVars, clock, verifierVars>>
  /\ UNCHANGED notCard

\* cta.first.evaluate("el => el.click()"); start = time.time()
Click ==
  /\ cpc = "click"
  /\ \/ /\ click_log' = Append(click_log, "cta")
        /\ attempts' = Append(attempts, Attempt("click", page_url, TRUE))
        /\ pending' = card.target
        /\ start' = clock
        /\ polls' = 0
        /\ cpc' = "check"
     \/ /\ cpc' = "except"
        /\ attempts' = Append(attempts, Attempt("click", page_url, FALSE))
        /\ UNCHANGED <<click_log, pending, start, polls>>
  /\ UNCHANGED <<page_url, nav_log, card, tab_el, clock, current_url, final_link, link,
                 verifierVars>>
  /\ UNCHANGED notCard

\* the navigation the click has started lands, whenever the browser gets there
Land ==
  /\ ~pending.none
  /\ cpc \notin {"idle", "done"}
  /\ page_url' = pending.value
  /\ nav_log' = Append(nav_log, pending.value)
  /\ pending' = None
  /\ UNCHANGED attempts
  /\ UNCHANGED <<click_log, cpc, card, tab_el, clock, start, polls, current_url, final_link,
                 link, verifierVars>>
  /\ UNCHANGED notCard

\* while time.time() - start < 8
PollCheck ==
  /\ cpc = "check"
  /\ cpc' = IF clock - start < PollTimeout THEN "eval" ELSE "final"
  /\ UNCHANGED attempts
  /\ UNCHANGED <<pageVars, resolverVars, clock, verifierVars>>
  /\ UNCHANGED notCard

\* if self.page.evaluate("window.location.href") != current_url: break
PollEval ==
  /\ cpc = "eval"
  /\ \E d \in 0..MaxReadTime : clock' = clock + d
  /\ polls' = polls + 1
  /\ \/ /\ cpc' = IF page_url # current_url THEN "final" ELSE "sleep"
        /\ UNCHANGED attempts
     \/ /\ cpc' = "except"
        /\ attempts' = Append(attempts, Attempt("evaluate", page_url, FALSE))
  /\ UNCHANGED <<pageVars, card, tab_el, pending, start, current_url, final_link, link,
                 verifierVars>>
  /\ UNCHANGED notCard

\* time.sleep(0.5)
PollSleep ==
  /\ cpc = "sleep"
  /\ clock' = clock + PollInterval
  /\ cpc' = "check"
  /\ UNCHANGED attempts
  /\ UNCHANGED <<pageVars, resolverVars, verifierVars>>
  /\ UNCHANGED notCard

\* final_link = self.page.evaluate("window.location.href")
FinalRead ==
  /\ cpc = "final"
  /\ \/ /\ final_link' = page_url
        /\ IF page_url # current_url
           THEN cpc' = "back" /\ UNCHANGED link
           ELSE cpc' = "linked" /\ link' = page_url
        /\ UNCHANGED attempts
     \/ /\ cpc' = "except"
        /\ attempts' = Append(attempts, Attempt("evaluate", page_url, FALSE))
        /\ UNCHANGED <<final_link, link>>
  /\ UNCHANGED <<pageVars, card, tab_el, pending, clock, start, polls, current_url,
                 verifierVars>>
  /\ UNCHANGED notCard

\* a restoration that goes back and leaves the scope control alone
GoBackNoReclick ==
  /\ cpc = "back"
  /\ page_url' = current_url
  /\ nav_log' = Append(nav_log, current_url)
  /\ attempts' = Append(attempts, Attempt("go_back", page_url, TRUE))
  /\ cpc' = "linked"
  /\ link' = final_link
  /\ UNCHANGED <<click_log, card, tab_el, pending, clock, start, polls, current_url,
                 final_link, verifierVars>>
  /\ UNCHANGED notCard

\* self.page.go_back(wait_until="domcontentloaded")
GoBack ==
  /\ cpc = "back"
  /\ \/ /\ page_url' = current_url
        /\ nav_log' = Append(nav_log, current_url)
        /\ attempts' = Append(attempts, Attempt("go_back", page_url, TRUE))
        /\ IF tab_el
           THEN cpc' = "tab" /\ UNCHANGED link
           ELSE cpc' = "linked" /\ link' = final_link
     \/ /\ cpc' = "except"
        /\ attempts' = Append(attempts, Attempt("go_back", page_url, FALSE))
        /\ UNCHANGED <<page_url, nav_log, link>>
  /\ UNCHANGED <<click_log, card, tab_el, pending, clock, start, polls, current_url,
                 final_link, verifierVars>>
  /\ UNCHANGED notCard

\* tab_el.evaluate("el => el.click()"); time.sleep(2); return final_link
TabClick ==
  /\ cpc = "tab"
  /\ \/ /\ click_log' = Append(click_log, "tab")
        /\ attempts' = Append(attempts, Attempt("tab_click", page_url, TRUE))
        /\ clock' = clock + SettleTime
        /\ link' = final_link
        /\ cpc' = "linked"
     \/ /\ cpc' = "except"
        /\ attempts' = Append(attempts, Attempt("tab_click", page_url, FALSE))
        /\ UNCHANGED <<click_log, clock, link>>
  /\ UNCHANGED <<page_url, nav_log, card, tab_el, pending, start, polls, current_url,
                 final_link, verifierVars>>
  /\ UNCHANGED notCard

\* a fallback to the URL recorded before the click
ExceptReturnsRecorded ==
  /\ cpc = "except"
  /\ link' = current_url
  /\ cpc' = "linked"
  /\ UNCHANGED attempts
  /\ UNCHANGED <<pageVars, card, tab_el, pending, clock, start, polls, current_url,
                 final_link, verifierVars>>
  /\ UNCHANGED notCard

\* except Exception: logging.warning(...); return self.page.url
Except ==
  /\ cpc = "except"
  /\ link' = page_url
  /\ cpc' = "linked"
  /\ UNCHANGED attempts
  /\ UNCHANGED <<pageVars, card, tab_el, pending, clock, start, polls, current_url,
                 final_link, verifierVars>>
  /\ UNCHANGED notCard

\* the handler: self.verify_pdp(link, url, card_price)
VerifyLink(price) ==
  /\ cpc = "linked"
  /\ pdp_url' = link
  /\ original_url' = ListingUrl
  /\ card_price' = price
  /\ cpc' = "verify"
  /\ UNCHANGED attempts
  /\ UNCHANGED <<pageVars, resolverVars, clock, found_pdp, verdict>>
  /\ UNCHANGED notCard

\* verify_pdp(pdp_url, original_url, card_price) called on its own
CallVerify(pdp, orig, price) ==
  /\ cpc = "idle"
  /\ pdp_url' = pdp
  /\ original_url' = orig
  /\ card_price' = price
  /\ cpc' = "verify"
  /\ UNCHANGED attempts
  /\ UNCHANGED <<pageVars, resolverVars, clock, found_pdp, verdict>>
  /\ UNCHANGED notCard

\* a short-circuit return that reports the purchase control as not found
VStartNotFound ==
  /\ cpc = "verify"
  /\ IF ShortCircuit(pdp_url, original_url)
     THEN verdict' = <<NA, NotFound, 1, 0>> /\ cpc' = "done"
     ELSE cpc' = "goto" /\ UNCHANGED verdict
  /\ UNCHANGED attempts
  /\ UNCHANGED <<pageVars, resolverVars, clock, pdp_url, original_url, card_price,
                 found_pdp>>
  /\ UNCHANGED notCard

\* if not pdp_url or pdp_url == original_url: return "N/A", "N/A", 1, 0
VStart ==
  /\ cpc = "verify"
  /\ IF ShortCircuit(pdp_url, original_url)
     THEN verdict' = <<NA, NA, 1, 0>> /\ cpc' = "done"
     ELSE cpc' = "goto" /\ UNCHANGED verdict
  /\ UNCHANGED attempts
  /\ UNCHANGED <<pageVars, resolverVars, clock, pdp_url, original_url, card_price,
                 found_pdp>>
  /\ UNCHANGED notCard

\* self.page.goto(pdp_url, ...); time.sleep(2)
VGoto ==
  /\ cpc = "goto"
  /\ \/ \E landing \in Landings(pdp_url, original_url) :
          /\ page_url' = landing
          /\ nav_log' = Append(nav_log, landing)
          /\ attempts' = Append(attempts, Attempt("goto", pdp_url, TRUE))
          /\ clock' = clock + SettleTime
          /\ cpc' = "inspect"
     \/ /\ cpc' = "recover"
        /\ attempts' = Append(attempts, Attempt("goto", pdp_url, FALSE))
        /\ UNCHANGED <<page_url, nav_log, clock>>
  /\ UNCHANGED <<click_log, resolverVars, verifierVars>>
  /\ UNCHANGED notCard

\* is_broken, the price scan, the price mismatch check and the scan for
\* a purchase control
VInspect ==
  /\ cpc = "inspect"
  /\ \/ \E pdp_price \in PdpPriceTexts, cta_status \in CtaStatuses :
          LET is_broken ==
                IF Strip(page_url, {"/"}) = Strip(original_url, {"/"}) THEN 1 ELSE 0
              c_price == clean_price(card_price)
              p_price == clean_price(pdp_price)
              price_mismatch ==
                IF /\ card_price # <<>>
                   /\ pdp_price # NotFound
                   /\ ~c_price.none
                   /\ ~p_price.none
                   /\ c_price.value # p_price.value
                THEN 1 ELSE 0
          IN  /\ found_pdp' = [is_broken |-> is_broken, pdp_price |-> pdp_price,
                               price_mismatch |-> price_mismatch,
                               cta_status |-> cta_status]
              /\ cpc' = "return"
              /\ UNCHANGED attempts
     \/ /\ cpc' = "recover"
        /\ attempts' = Append(attempts, Attempt("extract", page_url, FALSE))
        /\ UNCHANGED found_pdp
  /\ UNCHANGED <<pageVars, resolverVars, clock, pdp_url, original_url, card_price, verdict>>
  /\ UNCHANGED notCard

\* a return that leaves the page where the verification took it
VBackNoGoto ==
  /\ cpc = "return"
  /\ verdict' = <<found_pdp.pdp_price, found_pdp.cta_status, found_pdp.is_broken,
                  found_pdp.price_mismatch>>
  /\ cpc' = "done"
  /\ UNCHANGED <<pageVars, attempts, resolverVars, clock, pdp_url, original_url,
                 card_price, found_pdp>>
  /\ UNCHANGED notCard

\* self.page.goto(original_url, ...); return pdp_price, cta_status, is_broken,
\* price_mismatch
VBack ==
  /\ cpc = "return"
  /\ \/ /\ page_url' = original_url
        /\ nav_log' = Append(nav_log, original_url)
        /\ attempts' = Append(attempts, Attempt("goto", original_url, TRUE))
        /\ verdict' = <<found_pdp.pdp_price, found_pdp.cta_status, found_pdp.is_broken,
                        found_pdp.price_mismatch>>
        /\ cpc' = "done"
     \/ /\ cpc' = "recover"
        /\ attempts' = Append(attempts, Attempt("goto", original_url, FALSE))
        /\ UNCHANGED <<page_url, nav_log, verdict>>
  /\ UNCHANGED <<click_log, resolverVars, clock, pdp_url, original_url, card_price,
                 found_pdp>>
  /\ UNCHANGED notCard

\* a recovery whose own navigation is not guarded
VRecoverUnguarded ==
  /\ cpc = "recover"
  /\ \/ /\ page_url' = original_url
        /\ nav_log' = Append(nav_log, original_url)
        /\ attempts' = Append(attempts, Attempt("goto", original_url, TRUE))
        /\ verdict' = <<ErrorText, ErrorText, 1, 0>>
        /\ cpc' = "done"
     \/ /\ attempts' = Append(attempts, Attempt("goto", original_url, FALSE))
        /\ cpc' = "raised"
        /\ UNCHANGED <<page_url, nav_log, verdict>>
  /\ UNCHANGED <<click_log, resolverVars, clock, pdp_url, original_url, card_price,
                 found_pdp>>
  /\ UNCHANGED notCard

\* except Exception: try: self.page.goto(original_url) except: pass;
\* return "Error", "Error", 1, 0
VRecover ==
  /\ cpc = "recover"
  /\ \/ /\ page_url' = original_url
        /\ nav_log' = Append(nav_log, original_url)
        /\ attempts' = Append(attempts, Attempt("goto", original_url, TRUE))
     \/ /\ attempts' = Append(attempts, Attempt("goto", original_url, FALSE))
        /\ UNCHANGED <<page_url, nav_log>>
  /\ verdict' = <<ErrorText, ErrorText, 1, 0>>
  /\ cpc' = "done"
  /\ UNCHANGED <<click_log, resolverVars, clock, pdp_url, original_url, card_price,
                 found_pdp>>
  /\ UNCHANGED notCard

CardInit ==
  /\ page_url = ListingUrl
  /\ nav_log = <<>>
  /\ click_log = <<>>
  /\ attempts = <<>>
  /\ cpc = "idle"
  /\ card = NoCard
  /\ tab_el = FALSE
  /\ pending = None
  /\ clock = 0
  /\ start = 0
  /\ polls = 0
  /\ current_url = <<>>
  /\ final_link = <<>>
  /\ link = <<>>
  /\ pdp_url = <<>>
  /\ original_url = <<>>
  /\ card_price = NA
  /\ found_pdp = NoFinding
  /\ verdict = NoVerdict

\* the destinations verify_pdp is called with on its own
Destinations == {<<>>, ListingUrl, ListingUrl \o <<"/">>, PdpUrl}

NextCard ==
  \/ \E c \in Cards, t \in BOOLEAN : CallExtract(c, t)
  \/ Scroll
  \/ Click
  \/ Land
  \/ PollCheck
  \/ PollEval
  \/ PollSleep
  \/ FinalRead
  \/ GoBack
  \/ TabClick
  \/ Except
  \/ \E price \in PriceTexts : VerifyLink(price)
  \/ \E pdp \in Destinations, price \in PriceTexts \cup {<<>>} :
       CallVerify(pdp, ListingUrl, price)
  \/ VStart
  \/ VGoto
  \/ VInspect
  \/ VBack
  \/ VRecover

\* ------------------------------------------------------------------------
\* The price normalizations: BasePageHandler.clean_price and
\* PriceMismatchValidator._clean_price
\* ------------------------------------------------------------------------

\* str.lower, token by token: of the tokens of a price text only the
\* sentinels hold letters ("R" stands for the rupee sign)
LowerToken(t) ==
  CASE t = "N/A" -> "n/a"
    [] t = "Not Found" -> "not found"
    [] t = "Error" -> "error"
    [] OTHER -> t

Lower(s) == [i \in DOMAIN s |-> LowerToken(s[i])]

\* a missing-price test that compares the text as written, without lowering it
_is_price_missing_case_sensitive(price) ==
  IF price = <<>> THEN TRUE
  ELSE price \in {<<"n/a">>, <<"not found">>, <<"error">>, <<>>}

\* PriceMismatchValidator._is_price_missing
_is_price_missing(price) ==
  IF price = <<>> THEN TRUE
  ELSE LET price_lower == Lower(price)
       IN  price_lower \in {<<"n/a">>, <<"not found">>, <<"error">>, <<>>}

\* a normalization that drops the sentinels and reduces nothing
_clean_price_unreduced(price_str) ==
  IF _is_price_missing(price_str) THEN None ELSE Some(price_str)

_clean_price(price_str) ==
  IF _is_price_missing(price_str) THEN None
  ELSE LET nums == SelectSeq(price_str, IsDigit)
       IN  IF nums # <<>> THEN Some(nums) ELSE None

\* the digits prices are written with here
PriceDigits == {"9", "5"}

\* the currency sign, the blank and the comma
Marks == {"R", " ", ","}

\* the texts that stand for no price
Sentinels == {NA, NotFound, ErrorText, <<>>}

\* the text s with the token t put in after its first i tokens
InsertAt(s, i, t) == SubSeq(s, 1, i) \o <<t>> \o SubSeq(s, i + 1, Len(s))

NoCleaned == [card |-> None, digits |-> None, rule_card |-> None, rule_digits |-> None]

\* a price of some digits, still bare
TakeDigits(d) ==
  /\ npc = "idle"
  /\ d # <<>>
  /\ bare' = d
  /\ formatted' = d
  /\ npc' = "format"
  /\ UNCHANGED cleaned
  /\ UNCHANGED notPrice

\* the page writes the price with one more sign, blank or comma
Decorate(i, t) ==
  /\ npc = "format"
  /\ bare # <<>>
  /\ Len(formatted) - Len(bare) < MaxMarks
  /\ i <= Len(formatted)
  /\ formatted' = InsertAt(formatted, i, t)
  /\ UNCHANGED <<npc, bare, cleaned>>
  /\ UNCHANGED notPrice

\* a text that stands for no price
TakeSentinel(s) ==
  /\ npc = "idle"
  /\ bare' = <<>>
  /\ formatted' = s
  /\ npc' = "format"
  /\ UNCHANGED cleaned
  /\ UNCHANGED notPrice

\* both normalizations, of the text as shown and of its bare digits
Normalize ==
  /\ npc = "format"
  /\ cleaned' = [card |-> clean_price(formatted), digits |-> clean_price(bare),
                 rule_card |-> _clean_price(formatted),
                 rule_digits |-> _clean_price(bare)]
  /\ npc' = "done"
  /\ UNCHANGED <<bare, formatted>>
  /\ UNCHANGED notPrice

PriceInit ==
  /\ npc = "idle"
  /\ bare = <<>>
  /\ formatted = <<>>
  /\ cleaned = NoCleaned

NextPrice ==
  \/ \E d \in SeqsUpTo(PriceDigits, MaxDigits) : TakeDigits(d)
  \/ \E i \in 0..(MaxDigits + MaxMarks), t \in Marks : Decorate(i, t)
  \/ \E s \in Sentinels : TakeSentinel(s)
  \/ Normalize

\* ------------------------------------------------------------------------
\* The validators and BaseValidator.validate, call by call
\* ------------------------------------------------------------------------

\* ValidationResult(type, severity, message, course_name, field)
ValidationResult(type, severity, message, course_name, field) ==
  [type |-> type, severity |-> severity, message |-> message,
   course_name |-> course_name, field |-> field]

\* the records validate is called with
CourseData ==
  { [base_url |-> ListingUrl, course_name |-> "JEE Main", cta_link |-> l,
     price |-> p, pdp_price |-> q, cta_status |-> c, is_broken |-> b,
     price_mismatch |-> m, viewport |-> "desktop"] :
      l \in {<<>>, NA, ErrorText, ListingUrl, ListingUrl \o <<"/">>, PdpUrl},
      p \in {NA, <<"R", " ", "9", ",", "5">>},
      q \in {NotFound, <<"R", "9", "5">>, <<"R", "9", "9">>},
      c \in CtaStatuses,
      b \in {0, 1},
      m \in {0, 1} }

\* a purchase rule that goes on to the button check after a link finding
CTAValidator_validate_no_return(cd) ==
  LET course_name == Get(cd, "course_name", "Unknown Course")
      base_url == Get(cd, "base_url", <<>>)
      cta_link == Get(cd, "cta_link", <<>>)
      is_broken == Get(cd, "is_broken", 0)
      cta_status == Get(cd, "cta_status", NA)
      check1 == IF cta_link = <<>> \/ cta_link \in {NA, ErrorText, <<>>}
                THEN << ValidationResult("CTA_BROKEN", "CRITICAL",
                          "No CTA link found on course card", course_name, "cta_link") >>
                ELSE <<>>
      check2 == IF is_broken = 1
                   \/ (base_url # <<>> /\ Strip(cta_link, {"/"}) = Strip(base_url, {"/"}))
                THEN << ValidationResult("CTA_BROKEN", "CRITICAL",
                          "Course card link doesn't navigate to a PDP", course_name,
                          "cta_link") >>
                ELSE <<>>
      check3 == IF cta_status = NotFound
                THEN << ValidationResult("CTA_MISSING", "HIGH",
                          "PDP reachable but no Enroll/Buy Now button found", course_name,
                          "cta_status") >>
                ELSE <<>>
  IN  check1 \o check2 \o check3

\* a purchase rule that takes the scraper's flag alone for the same-page test
CTAValidator_validate_flag_only(cd) ==
  LET course_name == Get(cd, "course_name", "Unknown Course")
      cta_link == Get(cd, "cta_link", <<>>)
      is_broken == Get(cd, "is_broken", 0)
      cta_status == Get(cd, "cta_status", NA)
  IN  IF cta_link = <<>> \/ cta_link \in {NA, ErrorText, <<>>}
      THEN << ValidationResult("CTA_BROKEN", "CRITICAL",
                "No CTA link found on course card", course_name, "cta_link") >>
      ELSE IF is_broken = 1
      THEN << ValidationResult("CTA_BROKEN", "CRITICAL",
                "Course card link doesn't navigate to a PDP", course_name, "cta_link") >>
      ELSE IF cta_status = NotFound
      THEN << ValidationResult("CTA_MISSING", "HIGH",
                "PDP reachable but no Enroll/Buy Now button found", course_name,
                "cta_status") >>
      ELSE <<>>

\* CTAValidator._validate
CTAValidator_validate(cd) ==
  LET course_name == Get(cd, "course_name", "Unknown Course")
      base_url == Get(cd, "base_url", <<>>)
      cta_link == Get(cd, "cta_link", <<>>)
      is_broken == Get(cd, "is_broken", 0)
      cta_status == Get(cd, "cta_status", NA)
      link_is_same_page ==
        \/ is_broken = 1
        \/ (base_url # <<>> /\ Strip(cta_link, {"/"}) = Strip(base_url, {"/"}))
  IN  IF cta_link = <<>> \/ cta_link \in {NA, ErrorText, <<>>}
      THEN << ValidationResult("CTA_BROKEN", "CRITICAL",
                "No CTA link found on course card", course_name, "cta_link") >>
      ELSE IF link_is_same_page
      THEN << ValidationResult("CTA_BROKEN", "CRITICAL",
                "Course card link doesn't navigate to a PDP", course_name, "cta_link") >>
      ELSE IF cta_status = NotFound
      THEN << ValidationResult("CTA_MISSING", "HIGH",
                "PDP reachable but no Enroll/Buy Now button found", course_name,
                "cta_status") >>
      ELSE <<>>

\* PriceMismatchValidator._validate
PriceMismatchValidator_validate(cd) ==
  LET course_name == Get(cd, "course_name", "Unknown Course")
      card_price_ == Get(cd, "price", <<>>)
      pdp_price_ == Get(cd, "pdp_price", <<>>)
      price_mismatch_flag == Get(cd, "price_mismatch", 0)
      clean_card == _clean_price(card_price_)
      clean_pdp == _clean_price(pdp_price_)
  IN  IF _is_price_missing(card_price_) /\ _is_price_missing(pdp_price_)
      THEN <<>>
      ELSE IF price_mismatch_flag = 1
      THEN << ValidationResult("PRICE_MISMATCH", "MEDIUM",
                "Price on card doesn't match price on PDP", course_name, "price") >>
      ELSE IF ~_is_price_missing(card_price_) /\ _is_price_missing(pdp_price_)
      THEN << ValidationResult("PRICE_MISMATCH", "MEDIUM",
                "Price shown on card but not found on PDP", course_name, "pdp_price") >>
      ELSE IF _is_price_missing(card_price_) /\ ~_is_price_missing(pdp_price_)
      THEN << ValidationResult("PRICE_MISMATCH", "LOW",
                "Price found on PDP but not shown on card", course_name, "price") >>
      ELSE IF price_mismatch_flag = 0
                /\ ~clean_card.none /\ ~clean_pdp.none
                /\ clean_card.value # clean_pdp.value
      THEN << ValidationResult("PRICE_MISMATCH", "MEDIUM",
                "Numeric price values don't match", course_name, "price") >>
      ELSE <<>>

\* a broken-link rule whose three checks are made one after the other, none
\* excluding the next
BrokenLinkValidator_validate_every_check(cd) ==
  LET course_name == Get(cd, "course_name", "Unknown Course")
      base_url == Get(cd, "base_url", <<>>)
      cta_link == Get(cd, "cta_link", <<>>)
      is_broken == Get(cd, "is_broken", 0)
      check1 == IF cta_link # <<>> /\ base_url # <<>>
                     /\ Strip(cta_link, {"/"}) = Strip(base_url, {"/"})
                THEN << ValidationResult("BROKEN_LINK", "HIGH",
                          "Course card doesn't navigate to a new page", course_name,
                          "cta_link") >>
                ELSE <<>>
      check2 == IF is_broken = 1
                THEN << ValidationResult("BROKEN_LINK", "HIGH",
                          "Link verification failed during scraping", course_name,
                          "cta_link") >>
                ELSE <<>>
      check3 == IF cta_link = <<>> \/ cta_link \in {NA, ErrorText, <<>>}
                THEN << ValidationResult("BROKEN_LINK", "CRITICAL",
                          "No valid CTA link found on course card", course_name,
                          "cta_link") >>
                ELSE <<>>
  IN  check1 \o check2 \o check3

\* BrokenLinkValidator._validate
BrokenLinkValidator_validate(cd) ==
  LET course_name == Get(cd, "course_name", "Unknown Course")
      base_url == Get(cd, "base_url", <<>>)
      cta_link == Get(cd, "cta_link", <<>>)
      is_broken == Get(cd, "is_broken", 0)
  IN  IF cta_link # <<>> /\ base_url # <<>>
           /\ Strip(cta_link, {"/"}) = Strip(base_url, {"/"})
      THEN << ValidationResult("BROKEN_LINK", "HIGH",
                "Course card doesn't navigate to a new page", course_name, "cta_link") >>
      ELSE IF is_broken = 1
      THEN << ValidationResult("BROKEN_LINK", "HIGH",
                "Link verification failed during scraping", course_name, "cta_link") >>
      ELSE IF cta_link = <<>> \/ cta_link \in {NA, ErrorText, <<>>}
      THEN << ValidationResult("BROKEN_LINK", "CRITICAL",
                "No valid CTA link found on course card", course_name, "cta_link") >>
      ELSE <<>>

ValidatorClasses == {"CTAValidator", "PriceMismatchValidator", "BrokenLinkValidator"}

\* self._validate(course_data), by the class of self
_validate(cls, cd) ==
  CASE cls = "CTAValidator" -> CTAValidator_validate(cd)
    [] cls = "PriceMismatchValidator" -> PriceMismatchValidator_validate(cd)
    [] cls = "BrokenLinkValidator" -> BrokenLinkValidator_validate(cd)

\* the chains set_next can build: one validator or more, each linked to the
\* next
Chains == SeqsUpTo(ValidatorClasses, MaxChain) \ {<<>>}

\* chain[1].validate(course_data) is called
StartValidate ==
  /\ vpc = "idle"
  /\ chain' \in Chains
  /\ course_data' \in CourseData
  /\ frames' = <<>>
  /\ rule_log' = <<>>
  /\ vpc' = "call"
  /\ UNCHANGED returned_issues
  /\ UNCHANGED notRules

\* a validate that hands on to the next validator only what found nothing
CallRuleUntilIssue ==
  /\ vpc = "call"
  /\ LET k == Len(frames) + 1
         issues == _validate(chain[k], course_data)
     IN  /\ frames' = Append(frames, issues)
         /\ rule_log' = Append(rule_log, k)
         /\ vpc' = IF k < Len(chain) /\ issues = <<>> THEN "call" ELSE "return"
  /\ UNCHANGED <<chain, course_data, returned_issues>>
  /\ UNCHANGED notRules

\* issues = self._validate(course_data); if self.next_validator: the call of
\* its validate
CallRule ==
  /\ vpc = "call"
  /\ LET k == Len(frames) + 1
     IN  /\ frames' = Append(frames, _validate(chain[k], course_data))
         /\ rule_log' = Append(rule_log, k)
         /\ vpc' = IF k < Len(chain) THEN "call" ELSE "return"
  /\ UNCHANGED <<chain, course_data, returned_issues>>
  /\ UNCHANGED notRules

\* return issues: into the extend of the caller, or out of the first validate
ReturnRule ==
  /\ vpc = "return"
  /\ LET n == Len(frames)
     IN  IF n > 1
         THEN /\ frames' = [SubSeq(frames, 1, n - 1) EXCEPT ![n - 1] = @ \o frames[n]]
              /\ UNCHANGED <<vpc, returned_issues>>
         ELSE /\ returned_issues' = frames[1]
              /\ frames' = <<>>
              /\ vpc' = "done"
  /\ UNCHANGED <<chain, course_data, rule_log>>
  /\ UNCHANGED notRules

RuleInit ==
  /\ vpc = "idle"
  /\ chain = <<>>
  /\ course_data = CHOOSE cd \in CourseData : TRUE
  /\ frames = <<>>
  /\ rule_log = <<>>
  /\ returned_issues = <<>>

NextRules ==
  \/ StartValidate
  \/ CallRule
  \/ ReturnRule

\* ------------------------------------------------------------------------
\* The handlers' scrape, card by card, and the validation stage after it
\* ------------------------------------------------------------------------

HomeUrl == Origin \o <<"/">>

StreamUrl == Origin \o <<"/", "international-olympiads">>

\* an element of the listing page that a scope locator can match: its kind,
\* its text, and the card list a click on it makes the page show (0: none)
Element(tag, text, shows) == [tag |-> tag, text |-> text, shows |-> shows]

\* a card of a listing page, with what its product page shows
ListedCard(name, price, anchors, button, target, pdp_price, pdp_cta) ==
  [ name |-> name, price |-> price, anchors |-> anchors, button |-> button,
    target |-> target, pdp_price |-> pdp_price, pdp_cta |-> pdp_cta ]

\* a listing page: its scope elements in document order, and its card
\* lists, of which the first is the one shown after a load
Page(els, lists) == [els |-> els, lists |-> lists]

TenThousand == <<"R", " ", "1", "0", ",", "0", "0", "0">>

FifteenThousand == <<"R", " ", "1", "5", ",", "0", "0", "0">>

\* a card with a direct link to a product page that shows another price and
\* no purchase button
FoundationCard ==
  ListedCard(<<"Foundation Batch">>, TenThousand, <<Some(<<"/", "foundation">>)>>, FALSE,
             None, FifteenThousand, NotFound)

\* a card whose name no selector can read
NamelessCard ==
  ListedCard(NA, TenThousand, <<Some(<<"/", "foundation">>)>>, FALSE, None,
             FifteenThousand, NotFound)

\* a card whose link is the listing page's own URL with a slash at its end
SamePageCard ==
  ListedCard(<<"JEE Main">>, TenThousand, <<Some(<<"/", "online-coaching-jee", "/">>)>>,
             FALSE, None, TenThousand, NotFound)

\* a card whose link is the listing page's own URL
SelfLinkCard ==
  ListedCard(<<"JEE Advanced">>, NA, <<Some(ListingUrl)>>, FALSE, None, NotFound, NotFound)

\* a card without a link whose button leads to a product page with the
\* card's price and a purchase button
ButtonCard ==
  ListedCard(<<"NEET">>, TenThousand, <<>>, TRUE, Some(PdpUrl), TenThousand,
             <<"Found (", "Enroll Now", ")">>)

\* a card without a link whose button leads nowhere
DeadButtonCard ==
  ListedCard(<<"Test Series">>, NA, <<>>, TRUE, None, NotFound, NotFound)

\* a card with neither link nor button
BareCard ==
  ListedCard(<<"Olympiad">>, TenThousand, <<>>, FALSE, None, NotFound, NotFound)

\* a card whose price text holds a note beside its digits, with a direct link
\* to a product page that shows another price
NotedPriceCard ==
  ListedCard(<<"Crash Course">>,
             <<"R", " ", "1", "0", ",", "0", "0", "0", " ", "(EMI: ", "N/A", ")">>,
             <<Some(<<"/", "crash-course">>)>>, FALSE, None, FifteenThousand,
             <<"Found (", "Enroll Now", ")">>)

\* the card lists a page shows under one scope
OneCard == <<FoundationCard>>

RepeatedCards == <<NamelessCard, FoundationCard, FoundationCard>>

SamePageCards == <<SamePageCard, DeadButtonCard, SelfLinkCard>>

MixedCards == <<ButtonCard, FoundationCard>>

OtherCards == <<BareCard, ButtonCard>>

NotedPriceCards == <<NotedPriceCard>>

NoElements == <<>>

HomeTabs ==
  << Element("tab_item", <<"JEE">>, 1), Element("tab_item", <<"Study Material">>, 0),
     Element("tab_item", <<"NEET">>, 2) >>

Pills == << Element("button", <<"Live">>, 1), Element("button", <<"Recorded">>, 2) >>

ClassTabs ==
  << Element("button", <<"Class ", "8">>, 1), Element("button", <<"Class ", "9">>, 2) >>

\* elements that no handler takes for a tab or a pill
UnknownElements ==
  << Element("tab_item", <<"Study Material">>, 0), Element("button", <<"Sign in">>, 0) >>

\* the class tabs of a stream page inside the div that lays them out
WrappedClassTabs ==
  << Element("div", <<"Class ", "8", "Class ", "9">>, 0) >> \o ClassTabs

\* the tasks of a run, (tag, url) each
ListingTask == << <<"PLP_PAGES">>, ListingUrl >>

UnknownTagTask == << <<"LISTING">>, ListingUrl >>

HomeTask == << <<"HOME">>, HomeUrl >>

StreamTask == << <<"STREAM_PAGES">>, StreamUrl >>

\* a run: the task list parse_urls hands to the passes, and the page the
\* site serves at the URL of its tasks
Run(task_list, page) == [todo |-> task_list, site |-> page]

Runs ==
  { Run(<<ListingTask>>, Page(NoElements, <<OneCard>>)),
    Run(<<UnknownTagTask>>, Page(NoElements, <<OneCard>>)),
    Run(<<ListingTask>>, Page(NoElements, <<SamePageCards>>)),
    Run(<<ListingTask>>, Page(Pills, <<MixedCards, OtherCards>>)),
    Run(<<ListingTask>>, Page(Pills, <<OneCard, RepeatedCards>>)),
    Run(<<HomeTask>>, Page(HomeTabs, <<MixedCards, OtherCards>>)),
    Run(<<StreamTask>>, Page(ClassTabs, <<MixedCards, OtherCards>>)),
    Run(<<StreamTask>>, Page(WrappedClassTabs, <<MixedCards, OtherCards>>)),
    Run(<<StreamTask>>, Page(NoElements, <<OneCard>>)),
    Run(<<HomeTask, ListingTask>>, Page(Pills, <<OneCard, RepeatedCards>>)),
    Run(<<ListingTask, ListingTask>>, Page(NoElements, <<RepeatedCards>>)),
    Run(<<ListingTask>>, Page(NoElements, <<NotedPriceCards>>)),
    Run(<<HomeTask>>, Page(UnknownElements, <<RepeatedCards>>)),
    Run(<<StreamTask, ListingTask>>, Page(UnknownElements, <<OneCard>>)) }

\* a scope of the page as scrape iterates it: its name and its control
Scope(name, control) == [name |-> name, control |-> control]

Indices(s) == [k \in 1..Len(s) |-> k]

\* the first occurrences of the texts of a list, in order
RECURSIVE Unique(_, _)
Unique(s, seen) ==
  IF s = <<>> THEN <<>>
  ELSE IF Head(s) \in seen THEN Unique(Tail(s), seen)
  ELSE <<Head(s)>> \o Unique(Tail(s), seen \cup {Head(s)})

\* has_text with a string: the text holds the string somewhere
Contains(text, sub) ==
  \E i \in 1..(Len(text) - Len(sub) + 1) : SubSeq(text, i, i + Len(sub) - 1) = sub

\* re.compile(r'^Class \d+$') on the text of an element
IsClassLabel(text) ==
  /\ Len(text) >= 2
  /\ text[1] = "Class "
  /\ \A k \in 2..Len(text) : IsDigit(text[k])

\* a homepage scrape that iterates nothing when no tab renders
HomeScopesWithoutFallback(page) ==
  LET IsTab(k) == /\ page.els[k].tag = "tab_item"
                  /\ page.els[k].text \in {<<"JEE">>, <<"NEET">>, <<"Classes 6-10">>}
      tabs == SelectSeq(Indices(page.els), IsTab)
  IN  [j \in 1..Len(tabs) |-> Scope(page.els[tabs[j]].text, Some(tabs[j]))]

\* HomepageHandler.scrape: the tabs whose text is one of the three
\* categories, each with its element; (None, "Main") when there is none
HomeScopes(page) ==
  LET IsTab(k) == /\ page.els[k].tag = "tab_item"
                  /\ page.els[k].text \in {<<"JEE">>, <<"NEET">>, <<"Classes 6-10">>}
      tabs == SelectSeq(Indices(page.els), IsTab)
  IN  IF tabs # <<>>
      THEN [j \in 1..Len(tabs) |-> Scope(page.els[tabs[j]].text, Some(tabs[j]))]
      ELSE << Scope(<<"Main">>, None) >>

\* PLPHandler.scrape: the buttons whose text is one of the four filters,
\* each clicked by its index among them; "Default" when there is none
PLPScopes(page) ==
  LET IsPill(k) ==
        /\ page.els[k].tag = "button"
        /\ page.els[k].text \in {<<"Live">>, <<"Recorded">>, <<"Online Test Series">>,
                                 <<"Offline Test Series">>}
      pills_loc == SelectSeq(Indices(page.els), IsPill)
  IN  IF pills_loc # <<>>
      THEN [p_idx \in 1..Len(pills_loc) |->
              Scope(page.els[pills_loc[p_idx]].text, Some(pills_loc[p_idx]))]
      ELSE << Scope(<<"Default">>, None) >>

\* StreamHandler.scrape: the distinct texts of the buttons and divs that read
\* "Class <number>"; the control of a tab is the first button or div whose
\* text holds the tab's name; "Default" when there is none
StreamScopes(page) ==
  LET IsTab(k) == page.els[k].tag \in {"button", "div"} /\ IsClassLabel(page.els[k].text)
      tab_loc == SelectSeq(Indices(page.els), IsTab)
      tabs_info == Unique([j \in 1..Len(tab_loc) |-> page.els[tab_loc[j]].text], {})
      ActiveTab(tab_name) ==
        CHOOSE k \in 1..Len(page.els) :
          /\ page.els[k].tag \in {"button", "div"}
          /\ Contains(page.els[k].text, tab_name)
          /\ \A j \in 1..(k - 1) :
               ~(page.els[j].tag \in {"button", "div"} /\ Contains(page.els[j].text, tab_name))
  IN  IF tabs_info # <<>>
      THEN [t_idx \in 1..Len(tabs_info) |->
              Scope(tabs_info[t_idx], Some(ActiveTab(tabs_info[t_idx])))]
      ELSE << Scope(<<"Default">>, None) >>

\* the scopes in the reverse of the order the page lists them in
DiscoverReversed(cls, page) ==
  LET found_scopes == CASE cls = "HomepageHandler" -> HomeScopes(page)
                        [] cls = "PLPHandler" -> PLPScopes(page)
                        [] cls = "StreamHandler" -> StreamScopes(page)
  IN  [j \in 1..Len(found_scopes) |-> found_scopes[Len(found_scopes) + 1 - j]]

\* the scopes a handler's scrape iterates, by the class of the handler
Discover(cls, page) ==
  CASE cls = "HomepageHandler" -> HomeScopes(page)
    [] cls = "PLPHandler" -> PLPScopes(page)
    [] cls = "StreamHandler" -> StreamScopes(page)

\* the card list the page shows after element k was clicked
Clicked(page, k, shown) == IF page.els[k].shows = 0 THEN shown ELSE page.els[k].shows

\* the card list the page shows after a load
Loaded == 1

\* cards.nth(i) on the page as it is shown
CardAt(page, shown, i) ==
  IF i <= Len(page.lists[shown]) THEN Some(page.lists[shown][i]) ELSE None

\* safe_get_text(card, ...) for the name: the text, "N/A" when no selector
\* finds one
NameOf(c) == IF c.none THEN NA ELSE c.value.name

\* safe_get_text(card, ...) for the price
PriceOf(c) == IF c.none THEN NA ELSE c.value.price

\* extract_cta_link on a page where nothing raises and a click either has
\* navigated when the poll loop ends or never does: the link, and whether
\* the page went away and back
extract_cta_link(c, page_at) ==
  LET direct == IF c.none THEN None ELSE FirstLink(c.value.anchors, 1)
  IN  IF ~direct.none THEN [link |-> direct.value, went |-> FALSE]
      ELSE IF ~c.none /\ c.value.button /\ ~c.value.target.none
                /\ c.value.target.value # page_at
      THEN [link |-> c.value.target.value, went |-> TRUE]
      ELSE [link |-> page_at, went |-> FALSE]

\* a verification whose short-circuit return reports a link that works
verify_pdp_unflagged(pdp, orig, price, c) ==
  IF ShortCircuit(pdp, orig)
  THEN [pdp_price |-> NA, cta_status |-> NA, is_broken |-> 0, price_mismatch |-> 0,
        went |-> FALSE]
  ELSE LET c_price == clean_price(price)
           p_price == clean_price(c.pdp_price)
       IN  [ pdp_price |-> c.pdp_price,
             cta_status |-> c.pdp_cta,
             is_broken |-> 0,
             price_mismatch |->
               IF /\ price # <<>>
                  /\ c.pdp_price # NotFound
                  /\ ~c_price.none
                  /\ ~p_price.none
                  /\ c_price.value # p_price.value
               THEN 1 ELSE 0,
             went |-> TRUE ]

\* verify_pdp when nothing raises and the page lands on the URL it was sent
\* to: the four values returned, and whether the page went away and back
verify_pdp(pdp, orig, price, c) ==
  IF ShortCircuit(pdp, orig)
  THEN [pdp_price |-> NA, cta_status |-> NA, is_broken |-> 1, price_mismatch |-> 0,
        went |-> FALSE]
  ELSE LET c_price == clean_price(price)
           p_price == clean_price(c.pdp_price)
       IN  [ pdp_price |-> c.pdp_price,
             cta_status |-> c.pdp_cta,
             is_broken |->
               IF Strip(pdp, {"/"}) = Strip(orig, {"/"}) THEN 1 ELSE 0,
             price_mismatch |->
               IF /\ price # <<>>
                  /\ c.pdp_price # NotFound
                  /\ ~c_price.none
                  /\ ~p_price.none
                  /\ c_price.value # p_price.value
               THEN 1 ELSE 0,
             went |-> TRUE ]

\* one entry of a worker's log
Event(w, ev, card_name, batch) ==
  [ ev |-> ev, task |-> tno[w], scope |-> s_idx[w],
    scope_name |-> IF s_idx[w] \in DOMAIN scopes[w] THEN scopes[w][s_idx[w]].name ELSE <<>>,
    i |-> c_idx[w], card_name |-> card_name, active |-> active[w], batch |-> batch ]

NoCur == [card |-> None, name |-> NA, card_price |-> NA, link |-> <<>>]

NoSummary == [total_issues |-> 0, by_type |-> <<>>, by_severity |-> <<>>]

runVars == <<rpc, todo, site, validation_results, summary>>

\* the control of the scope worker w iterates
Control(w) == scopes[w][s_idx[w]].control

\* the URL of the task worker w is at
TaskUrl(w) == todo[tno[w]][2]

\* tasks = self.parse_urls(), and the passes are started
BeginRun ==
  /\ rpc = "start"
  /\ \E run \in Runs : todo' = run.todo /\ site' = run.site
  /\ rpc' = "passes"
  /\ hpc' = [w \in Workers |-> "task"]
  /\ UNCHANGED <<db, tno, handler_of, scopes, s_idx, n_cards, c_idx, cur, scraped_batch,
                 active, hlog, validation_results, summary>>
  /\ UNCHANGED notScrape

\* a pass that hands the visited set of the last handler to the next one
TakeTaskKeepingKeys(w) ==
  /\ rpc = "passes"
  /\ hpc[w] = "task"
  /\ IF tno[w] > Len(todo)
     THEN /\ hpc' = [hpc EXCEPT ![w] = "closed"]
          /\ UNCHANGED <<tno, handler_of, hlog>>
     ELSE LET handler_class == Resolve(todo[tno[w]][1])
          IN  IF handler_class.none
              THEN /\ hlog' = [hlog EXCEPT ![w] = Append(@, Event(w, "no_handler", <<>>, <<>>))]
                   /\ tno' = [tno EXCEPT ![w] = @ + 1]
                   /\ UNCHANGED <<hpc, handler_of>>
              ELSE /\ handler_of' = [handler_of EXCEPT ![w] =
                                    [NewHandler(handler_class.value, Label(w))
                                       EXCEPT !.processed_keys = handler_of[w].processed_keys]]
                   /\ hpc' = [hpc EXCEPT ![w] = "goto"]
                   /\ UNCHANGED <<tno, hlog>>
  /\ UNCHANGED <<db, scopes, s_idx, n_cards, c_idx, cur, scraped_batch, active, runVars>>
  /\ UNCHANGED notScrape

\* for tag, url in tasks: handler_class = self.handler_map.get(tag); the
\* handler is made, or the tag is reported; after the last task the pass ends
TakeTask(w) ==
  /\ rpc = "passes"
  /\ hpc[w] = "task"
  /\ IF tno[w] > Len(todo)
     THEN /\ hpc' = [hpc EXCEPT ![w] = "closed"]
          /\ UNCHANGED <<tno, handler_of, hlog>>
     ELSE LET handler_class == Resolve(todo[tno[w]][1])
          IN  IF handler_class.none
              THEN /\ hlog' = [hlog EXCEPT ![w] = Append(@, Event(w, "no_handler", <<>>, <<>>))]
                   /\ tno' = [tno EXCEPT ![w] = @ + 1]
                   /\ UNCHANGED <<hpc, handler_of>>
              ELSE /\ handler_of' = [handler_of EXCEPT ![w] =
                                    NewHandler(handler_class.value, Label(w))]
                   /\ hpc' = [hpc EXCEPT ![w] = "goto"]
                   /\ UNCHANGED <<tno, hlog>>
  /\ UNCHANGED <<db, scopes, s_idx, n_cards, c_idx, cur, scraped_batch, active, runVars>>
  /\ UNCHANGED notScrape

\* self.page.goto(url, ...) and the search for the tabs or pills
GotoListing(w) ==
  /\ hpc[w] = "goto"
  /\ active' = [active EXCEPT ![w] = Loaded]
  /\ scopes' = [scopes EXCEPT ![w] = Discover(handler_of[w].cls, site)]
  /\ s_idx' = [s_idx EXCEPT ![w] = 1]
  /\ hpc' = [hpc EXCEPT ![w] = "scope"]
  /\ UNCHANGED <<db, tno, handler_of, n_cards, c_idx, cur, scraped_batch, hlog, runVars>>
  /\ UNCHANGED notScrape

\* the load of the listing page raises: line 482 logs it, and the pass goes
\* on with the next task
GotoRaises(w) ==
  /\ hpc[w] = "goto"
  /\ hlog' = [hlog EXCEPT ![w] = Append(@, Event(w, "error", <<>>, <<>>))]
  /\ tno' = [tno EXCEPT ![w] = @ + 1]
  /\ hpc' = [hpc EXCEPT ![w] = "task"]
  /\ UNCHANGED <<db, handler_of, scopes, s_idx, n_cards, c_idx, cur, scraped_batch, active,
                 runVars>>
  /\ UNCHANGED notScrape

\* the head of the scope loop: the click on the scope's control, if it has
\* one, then cards, scraped_batch = [] and range(cards.count())
EnterScope(w) ==
  /\ hpc[w] = "scope"
  /\ s_idx[w] <= Len(scopes[w])
  /\ LET shown == IF Control(w).none THEN active[w]
                  ELSE Clicked(site, Control(w).value, active[w])
     IN  /\ active' = [active EXCEPT ![w] = shown]
         /\ n_cards' = [n_cards EXCEPT ![w] = Len(site.lists[shown])]
         /\ hlog' = [hlog EXCEPT ![w] =
                       Append(@, [Event(w, "scope", <<>>, <<>>) EXCEPT !.i = 0,
                                                                      !.active = shown])]
  /\ scraped_batch' = [scraped_batch EXCEPT ![w] = <<>>]
  /\ c_idx' = [c_idx EXCEPT ![w] = 1]
  /\ hpc' = [hpc EXCEPT ![w] = "card"]
  /\ UNCHANGED <<db, tno, handler_of, scopes, s_idx, cur, runVars>>
  /\ UNCHANGED notScrape

\* the scope loop is over: scrape returns, the pass goes on with the next
\* task
LeaveTask(w) ==
  /\ hpc[w] = "scope"
  /\ s_idx[w] > Len(scopes[w])
  /\ hlog' = [hlog EXCEPT ![w] = Append(@, Event(w, "returned", <<>>, <<>>))]
  /\ tno' = [tno EXCEPT ![w] = @ + 1]
  /\ hpc' = [hpc EXCEPT ![w] = "task"]
  /\ UNCHANGED <<db, handler_of, scopes, s_idx, n_cards, c_idx, cur, scraped_batch, active,
                 runVars>>
  /\ UNCHANGED notScrape

\* the head of the card loop: the scope's control, if it has one, is clicked
\* again
ReassertScope(w) ==
  /\ hpc[w] = "card"
  /\ c_idx[w] <= n_cards[w]
  /\ LET shown == IF Control(w).none THEN active[w]
                  ELSE Clicked(site, Control(w).value, active[w])
     IN  /\ active' = [active EXCEPT ![w] = shown]
         /\ hlog' = [hlog EXCEPT ![w] =
                       IF Control(w).none THEN @
                       ELSE Append(@, [Event(w, "click", <<>>, <<>>) EXCEPT !.active = shown])]
  /\ hpc' = [hpc EXCEPT ![w] = "name"]
  /\ UNCHANGED <<db, tno, handler_of, scopes, s_idx, n_cards, c_idx, cur, scraped_batch,
                 runVars>>
  /\ UNCHANGED notScrape

\* a raise in the card loop that hands the batch made so far to save_batch
\* on its way out
ReassertRaisesSavingBatch(w) ==
  /\ hpc[w] = "card"
  /\ c_idx[w] <= n_cards[w]
  /\ ~Control(w).none
  /\ db' = SaveBatch(db, scraped_batch[w])
  /\ hlog' = [hlog EXCEPT ![w] = Append(@, Event(w, "error", <<>>, <<>>))]
  /\ tno' = [tno EXCEPT ![w] = @ + 1]
  /\ hpc' = [hpc EXCEPT ![w] = "task"]
  /\ UNCHANGED <<handler_of, scopes, s_idx, n_cards, c_idx, cur, scraped_batch, active,
                 runVars>>
  /\ UNCHANGED notScrape

\* the click on the scope's control raises: scrape is left with its batch
\* unsaved, line 482 logs it, and the pass goes on with the next task
ReassertRaises(w) ==
  /\ hpc[w] = "card"
  /\ c_idx[w] <= n_cards[w]
  /\ ~Control(w).none
  /\ hlog' = [hlog EXCEPT ![w] = Append(@, Event(w, "error", <<>>, <<>>))]
  /\ tno' = [tno EXCEPT ![w] = @ + 1]
  /\ hpc' = [hpc EXCEPT ![w] = "task"]
  /\ UNCHANGED <<db, handler_of, scopes, s_idx, n_cards, c_idx, cur, scraped_batch, active,
                 runVars>>
  /\ UNCHANGED notScrape

\* a card loop whose visited set is one set for all the handlers at work
ReadNameSharedKeys(w) ==
  /\ hpc[w] = "name"
  /\ LET c == CardAt(site, active[w], c_idx[w])
         name == NameOf(c)
         key == <<scopes[w][s_idx[w]].name, name>>
         all_keys == UNION { handler_of[o].processed_keys : o \in Workers }
     IN  /\ hlog' = [hlog EXCEPT ![w] = Append(@, Event(w, "read", name, <<>>))]
         /\ IF name = NA \/ key \in all_keys
            THEN /\ c_idx' = [c_idx EXCEPT ![w] = @ + 1]
                 /\ hpc' = [hpc EXCEPT ![w] = "card"]
                 /\ UNCHANGED <<handler_of, cur>>
            ELSE /\ handler_of' = [handler_of EXCEPT ![w].processed_keys = @ \cup {key}]
                 /\ cur' = [cur EXCEPT ![w] =
                              [card |-> c, name |-> name, card_price |-> PriceOf(c),
                               link |-> <<>>]]
                 /\ hpc' = [hpc EXCEPT ![w] = "resolve"]
                 /\ UNCHANGED c_idx
  /\ UNCHANGED <<db, tno, scopes, s_idx, n_cards, scraped_batch, active, runVars>>
  /\ UNCHANGED notScrape

\* card = cards.nth(i); name = self.safe_get_text(card, ...); the skip, or
\* the key is added to processed_keys and card_price is read
ReadName(w) ==
  /\ hpc[w] = "name"
  /\ LET c == CardAt(site, active[w], c_idx[w])
         name == NameOf(c)
         key == <<scopes[w][s_idx[w]].name, name>>
     IN  /\ hlog' = [hlog EXCEPT ![w] = Append(@, Event(w, "read", name, <<>>))]
         /\ IF name = NA \/ key \in handler_of[w].processed_keys
            THEN /\ c_idx' = [c_idx EXCEPT ![w] = @ + 1]
                 /\ hpc' = [hpc EXCEPT ![w] = "card"]
                 /\ UNCHANGED <<handler_of, cur>>
            ELSE /\ handler_of' = [handler_of EXCEPT ![w].processed_keys = @ \cup {key}]
                 /\ cur' = [cur EXCEPT ![w] =
                              [card |-> c, name |-> name, card_price |-> PriceOf(c),
                               link |-> <<>>]]
                 /\ hpc' = [hpc EXCEPT ![w] = "resolve"]
                 /\ UNCHANGED c_idx
  /\ UNCHANGED <<db, tno, scopes, s_idx, n_cards, scraped_batch, active, runVars>>
  /\ UNCHANGED notScrape

\* link = self.extract_cta_link(card, control, scope name): a click that
\* navigated is followed by go_back, which shows the page as loaded, and by
\* the click on the control, if there is one
ResolveLink(w) ==
  /\ hpc[w] = "resolve"
  /\ LET r == extract_cta_link(cur[w].card, TaskUrl(w))
     IN  /\ cur' = [cur EXCEPT ![w].link = r.link]
         /\ active' = [active EXCEPT ![w] =
                         IF ~r.went THEN @
                         ELSE IF Control(w).none THEN Loaded
                         ELSE Clicked(site, Control(w).value, Loaded)]
  /\ hlog' = [hlog EXCEPT ![w] = Append(@, Event(w, "resolve", cur[w].name, <<>>))]
  /\ hpc' = [hpc EXCEPT ![w] = "verify"]
  /\ UNCHANGED <<db, tno, handler_of, scopes, s_idx, n_cards, c_idx, scraped_batch, runVars>>
  /\ UNCHANGED notScrape

\* a handler that saves each record as soon as it is made
VerifyCardSavingEarly(w) ==
  /\ hpc[w] = "verify"
  /\ LET v == verify_pdp(cur[w].link, TaskUrl(w), cur[w].card_price, cur[w].card.value)
         record == CourseRecord(TaskUrl(w), cur[w].name, cur[w].link, cur[w].card_price,
                                v.pdp_price, v.cta_status, v.is_broken, v.price_mismatch,
                                handler_of[w].viewport)
     IN  /\ active' = [active EXCEPT ![w] = IF v.went THEN Loaded ELSE @]
         /\ scraped_batch' = [scraped_batch EXCEPT ![w] = Append(@, record)]
         /\ db' = SaveBatch(db, <<record>>)
         /\ hlog' = [hlog EXCEPT ![w] =
                       Append(@, Event(w, "verify", cur[w].name, <<record>>))]
  /\ c_idx' = [c_idx EXCEPT ![w] = @ + 1]
  /\ hpc' = [hpc EXCEPT ![w] = "card"]
  /\ UNCHANGED <<tno, handler_of, scopes, s_idx, n_cards, cur, runVars>>
  /\ UNCHANGED notScrape

\* pdp_price, cta_status, is_broken, mismatch = self.verify_pdp(link, url,
\* card_price), whose return to the listing shows the page as loaded; then
\* scraped_batch.append({...})
VerifyCard(w) ==
  /\ hpc[w] = "verify"
  /\ LET v == verify_pdp(cur[w].link, TaskUrl(w), cur[w].card_price, cur[w].card.value)
         record == CourseRecord(TaskUrl(w), cur[w].name, cur[w].link, cur[w].card_price,
                                v.pdp_price, v.cta_status, v.is_broken, v.price_mismatch,
                                handler_of[w].viewport)
     IN  /\ active' = [active EXCEPT ![w] = IF v.went THEN Loaded ELSE @]
         /\ scraped_batch' = [scraped_batch EXCEPT ![w] = Append(@, record)]
         /\ hlog' = [hlog EXCEPT ![w] =
                       Append(@, Event(w, "verify", cur[w].name, <<record>>))]
  /\ c_idx' = [c_idx EXCEPT ![w] = @ + 1]
  /\ hpc' = [hpc EXCEPT ![w] = "card"]
  /\ UNCHANGED <<db, tno, handler_of, scopes, s_idx, n_cards, cur, runVars>>
  /\ UNCHANGED notScrape

\* the card loop is over: self.db.save_batch(scraped_batch), and the next
\* scope
SaveScope(w) ==
  /\ hpc[w] = "card"
  /\ c_idx[w] > n_cards[w]
  /\ db' = SaveBatch(db, scraped_batch[w])
  /\ hlog' = [hlog EXCEPT ![w] = Append(@, Event(w, "save", <<>>, scraped_batch[w]))]
  /\ s_idx' = [s_idx EXCEPT ![w] = @ + 1]
  /\ hpc' = [hpc EXCEPT ![w] = "scope"]
  /\ UNCHANGED <<tno, handler_of, scopes, n_cards, c_idx, cur, scraped_batch, active,
                 runVars>>
  /\ UNCHANGED notScrape

\* a chain that ends after the purchase rule
_purchase_rule_only_chain == <<"CTAValidator">>

\* the chain ValidationService builds: the purchase rule, then the price rule
_build_default_validator_chain == <<"CTAValidator", "PriceMismatchValidator">>

\* BaseValidator.validate from the first validator of a chain on
RECURSIVE validate(_, _)
validate(validators, cd) ==
  IF validators = <<>> THEN <<>>
  ELSE _validate(Head(validators), cd) \o validate(Tail(validators), cd)

\* ValidationService.validate_course
validate_course(cd) == validate(_build_default_validator_chain, cd)

\* issue.viewport = viewport
Stamped(issue, viewport) ==
  [ type |-> issue.type, severity |-> issue.severity, message |-> issue.message,
    course_name |-> issue.course_name, field |-> issue.field, viewport |-> viewport ]

\* ValidationService.validate_all_courses over the rows of the table
RECURSIVE validate_all_courses(_)
validate_all_courses(rows) ==
  IF rows = <<>> THEN <<>>
  ELSE LET row == Head(rows)
           issues == validate_course(row)
       IN  [k \in 1..Len(issues) |-> Stamped(issues[k], Get(row, "viewport", "desktop"))]
             \o validate_all_courses(Tail(rows))

\* the counts get_summary keeps under one attribute of the results
CountBy(results, attribute) ==
  [ v \in {results[k][attribute] : k \in DOMAIN results} |->
      Cardinality({k \in DOMAIN results : results[k][attribute] = v}) ]

\* ValidationService.get_summary
get_summary(results) ==
  IF results = <<>>
  THEN [total_issues |-> 0, by_type |-> <<>>, by_severity |-> <<>>]
  ELSE [ total_issues |-> Len(results),
         by_type |-> CountBy(results, "type"),
         by_severity |-> CountBy(results, "severity") ]

\* validator.validate_all_courses(), after both passes
ValidateAll ==
  /\ rpc = "passes"
  /\ \A w \in Workers : hpc[w] = "closed"
  /\ validation_results' = validate_all_courses(db)
  /\ rpc' = "validated"
  /\ UNCHANGED <<db, todo, site, hpc, tno, handler_of, scopes, s_idx, n_cards, c_idx, cur,
                 scraped_batch, active, hlog, summary>>
  /\ UNCHANGED notScrape

\* a call of validate_all_courses that adds its issues to the ones held
ValidateAgainAccumulating ==
  /\ rpc = "validated"
  /\ validation_results' = validation_results \o validate_all_courses(db)
  /\ rpc' = "revalidated"
  /\ UNCHANGED <<db, todo, site, hpc, tno, handler_of, scopes, s_idx, n_cards, c_idx, cur,
                 scraped_batch, active, hlog, summary>>
  /\ UNCHANGED notScrape

\* one more call of validate_all_courses() on the same service: the rows are
\* selected again and self.validation_results = all_issues
ValidateAgain ==
  /\ rpc = "validated"
  /\ validation_results' = validate_all_courses(db)
  /\ rpc' = "revalidated"
  /\ UNCHANGED <<db, todo, site, hpc, tno, handler_of, scopes, s_idx, n_cards, c_idx, cur,
                 scraped_batch, active, hlog, summary>>
  /\ UNCHANGED notScrape

\* summary = self.vs.get_summary(), as the report builder asks for it
GetSummary ==
  /\ rpc \in {"validated", "revalidated"}
  /\ summary' = get_summary(validation_results)
  /\ rpc' = "done"
  /\ UNCHANGED <<db, todo, site, hpc, tno, handler_of, scopes, s_idx, n_cards, c_idx, cur,
                 scraped_batch, active, hlog, validation_results>>
  /\ UNCHANGED notScrape

ScrapeInit ==
  /\ rpc = "start"
  /\ todo = <<>>
  /\ site = Page(NoElements, <<OneCard>>)
  /\ hpc = [w \in Workers |-> "unborn"]
  /\ tno = [w \in Workers |-> 1]
  /\ handler_of = [w \in Workers |-> NewHandler("PLPHandler", Label(w))]
  /\ scopes = [w \in Workers |-> <<>>]
  /\ s_idx = [w \in Workers |-> 1]
  /\ n_cards = [w \in Workers |-> 0]
  /\ c_idx = [w \in Workers |-> 1]
  /\ cur = [w \in Workers |-> NoCur]
  /\ scraped_batch = [w \in Workers |-> <<>>]
  /\ active = [w \in Workers |-> Loaded]
  /\ hlog = [w \in Workers |-> <<>>]
  /\ validation_results = <<>>
  /\ summary = NoSummary

NextScrape ==
  \/ BeginRun
  \/ \E w \in Workers : TakeTask(w)
  \/ \E w \in Workers : GotoListing(w)
  \/ \E w \in Workers : GotoRaises(w)
  \/ \E w \in Workers : EnterScope(w)
  \/ \E w \in Workers : LeaveTask(w)
  \/ \E w \in Workers : ReassertScope(w)
  \/ \E w \in Workers : ReassertRaises(w)
  \/ \E w \in Workers : ReadName(w)
  \/ \E w \in Workers : ResolveLink(w)
  \/ \E w \in Workers : VerifyCard(w)
  \/ \E w \in Workers : SaveScope(w)
  \/ ValidateAll
  \/ ValidateAgain
  \/ GetSummary

\* ------------------------------------------------------------------------
\* The task file: parse_urls, and the task list handed to both passes
\* ------------------------------------------------------------------------

\* the lines a task file is made of when it also holds a header without a
\* name, a second URL, an indented URL and a line that is neither
TaskLinePool ==
  { <<"[", "home", "]">>, <<"[", "PLP_PAGES", "]">>, <<"[", "]">>,
    ListingUrl, HomeUrl, <<" ">> \o StreamUrl, <<" ">>, <<"#", " ", "courses">> }

TaskFiles == {MissingFile} \cup {FileOf(lines) : lines \in SeqsUpTo(TaskLinePool, MaxLines)}

\* tasks = self.parse_urls(); if not tasks: return
ParseUrls ==
  /\ fpc = "start"
  /\ \E file \in TaskFiles :
       /\ urls_file' = file
       /\ parsed' = parse_urls(file)
       /\ fpc' = IF parse_urls(file) = <<>> THEN "halted" ELSE "submit"
  /\ UNCHANGED given
  /\ UNCHANGED notParse

\* pool.submit(self._run_viewport, tasks, label, kwargs), for the labels of
\* viewport_configs in their order
SubmitPass(w) ==
  /\ fpc = "submit"
  /\ given[w].none
  /\ \A o \in Workers : o < w => ~given[o].none
  /\ given' = [given EXCEPT ![w] = Some(parsed)]
  /\ fpc' = IF w = Len(ViewportLabels) THEN "passes" ELSE "submit"
  /\ UNCHANGED <<urls_file, parsed>>
  /\ UNCHANGED notParse

ParseInit ==
  /\ fpc = "start"
  /\ urls_file = MissingFile
  /\ parsed = <<>>
  /\ given = [w \in Workers |-> None]

NextParse ==
  \/ ParseUrls
  \/ \E w \in Workers : SubmitPass(w)

InitDb ==
  DbInit /\ EngineInit /\ CardInit /\ PriceInit /\ RuleInit /\ ScrapeInit /\ ParseInit

Init == DbInit /\ EngineInit /\ CardInit /\ PriceInit /\ RuleInit /\ ScrapeInit /\ ParseInit

Next ==
  \/ Parse
  \/ ResolveDevices
  \/ Submit
  \/ \E w \in Workers : OpenSession(w)
  \/ \E w \in Workers : RunTask(w)
  \/ \E w \in Workers : CloseSession(w)
  \/ \E w \in Workers : Collect(w)
  \/ PoolExit
  \/ Validate
  \/ Report

Spec == Init /\ [][Next]_vars

\* every thread that can take a step is scheduled in the end
SpecFair ==
  /\ Spec
  /\ WF_vars(MainStep)
  /\ \A w \in Workers : WF_vars(WorkerStep(w))

SpecDb == InitDb /\ [][NextDb]_vars

SpecCard == Init /\ [][NextCard]_vars

SpecPrice == Init /\ [][NextPrice]_vars

SpecRules == Init /\ [][NextRules]_vars

SpecScrape == Init /\ [][NextScrape]_vars

SpecParse == Init /\ [][NextParse]_vars

\* ------------------------------------------------------------------------
\* The claims
\* ------------------------------------------------------------------------

\* the key of a record or a row, as the data model states it
SameKey(r, q) ==
  /\ r.course_name = q.course_name
  /\ r.cta_link = q.cta_link
  /\ r.viewport = q.viewport

HoldsKey(rows, r) == \E k \in 1..Len(rows) : SameKey(rows[k], r)

\* every row of the table, the uncommitted ones included
AllRows == db \o txn["desktop"] \o txn["mobile"]

\* C1: a save_batch call that repeats the batch of the call before it, on the
\* same viewport, inserts nothing: its counter of new rows stays 0 and it has
\* no row to commit, at every point of the call and after it.
C1_SaveBatchIdempotent ==
  \A w \in Viewports : resave[w] => new_items[w] = 0 /\ txn[w] = <<>>

\* a repeated call of a two-record batch has returned, the first call having
\* stored its records
C1_Witness ==
  \E w \in Viewports :
    /\ resave[w]
    /\ wpc[w] = "returned"
    /\ Len(courses[w]) = 2
    /\ \A k \in 1..2 : HoldsKey(db, courses[w][k])

\* C2: from the empty store, with one writer per viewport, the table never
\* holds two rows of one (course_name, cta_link, viewport) key, also when a
\* batch names a key twice.
C2_KeyUnique ==
  \A i, j \in 1..Len(AllRows) : SameKey(AllRows[i], AllRows[j]) => i = j

\* a batch that names one key twice has been saved, and one row was inserted
C2_Witness ==
  \E w \in Viewports :
    /\ wpc[w] = "returned"
    /\ Len(courses[w]) = 2
    /\ SameKey(courses[w][1], courses[w][2])
    /\ new_items[w] = 1
    /\ HoldsKey(db, courses[w][1])

\* C3: with the desktop and the mobile writer running save_batch at the same
\* time, in every interleaving of their statements the committed table holds
\* no key twice, every row is the row of a record that was handed over, and
\* once a call has returned every key of its batch is in the table.
C3_CrossViewportSafe ==
  /\ \A i, j \in 1..Len(db) : SameKey(db[i], db[j]) => i = j
  /\ \A i \in 1..Len(db) :
       \E c \in CardPool :
         db[i] = [ base_url |-> ListingUrl, course_name |-> c[1], cta_link |-> c[2],
                   price |-> c[3], pdp_price |-> c[3], cta_status |-> "Not Found",
                   is_broken |-> 0, price_mismatch |-> 0, viewport |-> db[i].viewport ]
  /\ \A w \in Viewports :
       wpc[w] = "returned" => \A k \in 1..Len(courses[w]) : HoldsKey(db, courses[w][k])

\* the mobile writer is about to insert a course while the desktop writer
\* holds the write lock with its row of the same course not yet committed
C3_Witness ==
  /\ lock = "desktop"
  /\ txn["desktop"] # <<>>
  /\ wpc["mobile"] = "insert"
  /\ ~found["mobile"]
  /\ courses["mobile"][idx["mobile"]].course_name = txn["desktop"][1].course_name
  /\ courses["mobile"][idx["mobile"]].cta_link = txn["desktop"][1].cta_link

\* C4: a run has one worker for each viewport label, every record a worker
\* hands to save_batch carries that worker's label, and every row of the
\* table is the row of a record handed over by the worker of the row's
\* viewport.
C4_WriterExclusive ==
  /\ \A v \in {"desktop", "mobile"} :
       /\ Cardinality({w \in Workers : Label(w) = v}) = 1
       /\ Cardinality({w \in Workers : Label(w) = v /\ ppc[w] # "unborn"}) =
            IF mpc \in {"start", "halted", "devices", "submit", "crashed"} THEN 0 ELSE 1
  /\ \A w \in Workers : \A e \in handed[w] : e[2].viewport = Label(w)
  /\ \A i \in 1..Len(db) :
       \E w \in Workers :
         /\ Label(w) = db[i].viewport
         /\ \E e \in handed[w] : SameKey(e[2], db[i]) /\ e[2].base_url = db[i].base_url

\* both workers have written their row
C4_Witness ==
  /\ \E i \in 1..Len(db) : db[i].viewport = "desktop"
  /\ \E i \in 1..Len(db) : db[i].viewport = "mobile"
  /\ \A w \in Workers : handed[w] # {}

\* C5: the validation stage runs only once both passes have ended, by
\* returning or by an error; a pass that has started its tasks ends only
\* after its loop has gone through the whole list, whatever happens to the
\* other pass; and once the passes are submitted, validation is executed in
\* the end, also after a pass has failed.
C5_PassIsolation ==
  /\ []((validated \/ mpc \in {"validate", "report", "done"}) =>
          \A w \in Workers : ppc[w] \in Terminated)
  /\ [](\A w \in Workers : ppc[w] \in {"close", "done"} => tix[w] = Len(tasks) + 1)
  /\ (mpc = "join") ~> validated
  /\ (\E w \in Workers : ppc[w] = "failed") ~> validated

\* validation has run after one pass failed and the other went through and
\* stored a record
C5_Witness ==
  /\ validated
  /\ \E w, o \in Workers :
       /\ ppc[w] = "failed"
       /\ Label(w) \in pass_errors
       /\ ppc[o] = "done"
       /\ handed[o] # {}

\* the categories of the dispatch table and the handler of each
KnownTags == {<<"HOME">>, <<"PLP_PAGES">>, <<"STREAM_PAGES">>}

ExpectedHandler(tag) ==
  CASE tag = <<"HOME">> -> "HomepageHandler"
    [] tag = <<"PLP_PAGES">> -> "PLPHandler"
    [] tag = <<"STREAM_PAGES">> -> "StreamHandler"

\* the tasks before position n whose category is known, in list order
RECURSIVE KnownBefore(_)
KnownBefore(n) ==
  IF n <= 1 THEN <<>>
  ELSE IF tasks[n - 1][1] \in KnownTags
    THEN Append(KnownBefore(n - 1), n - 1)
    ELSE KnownBefore(n - 1)

InvokedTasks(w) == [n \in 1..Len(invoked[w]) |-> invoked[w][n][1]]

\* C6: an error a handler's scrape raises is caught at the task: the scrape
\* calls a worker has made are those of the tasks of known category its loop
\* has passed, in list order, whichever of them raised, and a pass that has
\* invoked a scrape ends only after its loop has gone through the whole list.
C6_TaskIsolation ==
  \A w \in Workers :
    /\ InvokedTasks(w) = KnownBefore(tix[w])
    /\ caught[w] \subseteq {InvokedTasks(w)[n] : n \in 1..Len(invoked[w])}
    /\ (ppc[w] \in Terminated /\ invoked[w] # <<>>) => tix[w] = Len(tasks) + 1

\* a scrape raised and the scrape of a later task was invoked all the same
C6_Witness ==
  \E w \in Workers : \E k \in caught[w] :
    \E n \in 1..Len(invoked[w]) : invoked[w][n][1] > k

\* C7: a task whose category is not in the dispatch table runs no handler,
\* hands no record to persistence, raises no error and is followed by the
\* next task; a task of a known category is run by the handler the table
\* maps its category to.
C7_DispatchMissHarmless ==
  \A w \in Workers :
    /\ \A n \in 1..Len(invoked[w]) :
         /\ tasks[invoked[w][n][1]][1] \in KnownTags
         /\ invoked[w][n][2] = ExpectedHandler(tasks[invoked[w][n][1]][1])
    /\ \A k \in 1..(tix[w] - 1) :
         IF tasks[k][1] \in KnownTags
           THEN k \notin skipped[w] /\ \E n \in 1..Len(invoked[w]) : invoked[w][n][1] = k
           ELSE /\ k \in skipped[w]
                /\ k \notin caught[w]
                /\ \A n \in 1..Len(invoked[w]) : invoked[w][n][1] # k
                /\ \A e \in handed[w] : e[1] # k
    /\ (ppc[w] \in Terminated /\ skipped[w] # {}) => tix[w] = Len(tasks) + 1

\* a pass has ended normally after skipping a task of unknown category and
\* then running the handler of a later task
C7_Witness ==
  \E w \in Workers :
    /\ ppc[w] = "done"
    /\ \E k \in skipped[w] : \E n \in 1..Len(invoked[w]) : invoked[w][n][1] > k

\* C8: a run that has ended without executing the validation stage had no
\* task to run; and a run halted for want of tasks has started no worker,
\* opened no automation session and executed neither validation nor report.
C8_OnlyAbsentTaskListHalts ==
  /\ (mpc \in {"halted", "crashed", "done"} /\ ~validated) => tasks = <<>>
  /\ mpc = "halted" =>
       /\ tasks = <<>>
       /\ sessions = {}
       /\ \A w \in Workers : ppc[w] = "unborn"
       /\ ~validated /\ ~reported

\* C9: the poll loop of the click path never keeps the caller waiting longer
\* than the 8 s timeout, and makes no more polls than the timeout holds
\* intervals: when the loop is left, no more than 8 s have gone by since the
\* click and no more than 8 / 0.5 reads of the page URL were made
C9_PollLoopWithinTimeout ==
  cpc = "final" =>
    /\ clock - start <= PollTimeout
    /\ polls <= PollTimeout \div PollInterval

\* C10: verify_pdp called with a destination that is empty or textually
\* equal to the original URL returns ("N/A", "N/A", 1, 0) and navigates
\* nowhere: in the step that runs it the page's URL and its history stay as
\* they are
C10_VerifierShortCircuit ==
  [][ (/\ cpc = "verify"
       /\ cpc' # "verify"
       /\ (pdp_url = <<>> \/ pdp_url = original_url))
      => (/\ cpc' = "done"
          /\ verdict' = <<NA, NA, 1, 0>>
          /\ page_url' = page_url
          /\ nav_log' = nav_log) ]_vars

\* verify_pdp has returned from a call with the destination the link
\* resolver fell back to when the click changed nothing: the listing page
C10_Witness ==
  /\ cpc = "done"
  /\ click_log # <<>>
  /\ pdp_url = original_url
  /\ verdict = <<NA, NA, 1, 0>>
  /\ nav_log = <<>>

\* the calls of verify_pdp that raised: its navigations and its extraction
VerifierFailed ==
  \E i \in DOMAIN attempts : attempts[i].op \in {"goto", "extract"} /\ ~attempts[i].ok

C12_NavigateBackDiscipline ==
  cpc = "done" =>
    \A i \in DOMAIN attempts :
      (attempts[i].op = "goto" /\ attempts[i].url = pdp_url /\ pdp_url # original_url) =>
        /\ \E j \in DOMAIN attempts :
             j > i /\ attempts[j].op = "goto" /\ attempts[j].url = original_url
        /\ (\E j \in DOMAIN attempts :
              j > i /\ attempts[j] = Attempt("goto", original_url, TRUE))
           => page_url = original_url

\* verify_pdp has returned what it found on the destination it reached, the
\* page being back at the original URL
C12_Witness ==
  /\ cpc = "done"
  /\ verdict[1] # ErrorText
  /\ Len(attempts) >= 2
  /\ attempts[Len(attempts) - 1] = Attempt("goto", pdp_url, TRUE)
  /\ attempts[Len(attempts)] = Attempt("goto", original_url, TRUE)
  /\ \E i \in DOMAIN nav_log : nav_log[i] = pdp_url /\ pdp_url # original_url
  /\ page_url = original_url

\* a URL without the slashes at its end
RECURSIVE WithoutTrailingSlashes(_)
WithoutTrailingSlashes(u) ==
  IF u # <<>> /\ u[Len(u)] = "/"
  THEN WithoutTrailingSlashes(SubSeq(u, 1, Len(u) - 1))
  ELSE u

RECURSIVE DigitString(_)
DigitString(p) ==
  IF p = <<>> THEN <<>>
  ELSE IF Head(p) \in {"0", "1", "2", "3", "4", "5", "6", "7", "8", "9"}
       THEN <<Head(p)>> \o DigitString(Tail(p))
       ELSE DigitString(Tail(p))

\* a price is present when its text is there, is no sentinel and holds a
\* digit string
PricePresent(p) ==
  /\ p # <<>>
  /\ p \notin {<<"N/A">>, <<"Not Found">>, <<"Error">>}
  /\ DigitString(p) # <<>>

Qualifies(href) ==
  /\ ~href.none
  /\ href.value # <<>>
  /\ href.value[1] # "#"
  /\ href.value[1] # "javascript"

\* the anchors of a card whose href qualifies
Qualifying(c) == {i \in DOMAIN c.anchors : Qualifies(c.anchors[i])}

\* the href of the first qualifying anchor of a card, a path from the root
\* of the site put behind the site's origin
FirstResolved(c) ==
  LET i == CHOOSE k \in Qualifying(c) : \A l \in Qualifying(c) : k <= l
      h == c.anchors[i].value
  IN  IF h[1] = "/" THEN <<"https", "://allen.in">> \o h ELSE h

ResolverFailed(log) ==
  \E i \in DOMAIN log :
    /\ log[i].op \in {"scroll", "click", "evaluate", "go_back", "tab_click"}
    /\ ~log[i].ok

\* the positions in the log of the calls of one method that returned
Returned(op) == {i \in DOMAIN attempts : attempts[i].op = op /\ attempts[i].ok}

\* C17: when extract_cta_link has returned from a click path in which
\* nothing raised: if it saw the page at a URL other than the recorded one,
\* it returns that URL, has gone back once so that the page is at the
\* recorded URL again, and has clicked the scope control after going back
\* exactly when one was supplied; if the URL never changed it has gone back
\* nowhere and has clicked no scope control
C17_ScopeRestoration ==
  (/\ cpc = "linked"
   /\ Returned("click") # {}
   /\ ~ResolverFailed(attempts))
  => IF final_link # current_url
     THEN /\ link = final_link
          /\ page_url = current_url
          /\ Cardinality(Returned("go_back")) = 1
          /\ tab_el => /\ Cardinality(Returned("tab_click")) = 1
                       /\ \A i \in Returned("go_back"), j \in Returned("tab_click") : i < j
          /\ ~tab_el => Returned("tab_click") = {}
     ELSE /\ link = current_url
          /\ Returned("go_back") = {}
          /\ Returned("tab_click") = {}

\* extract_cta_link has returned the product page's URL after a click, a
\* way back and a click on the scope control, the page being at the listing
C17_Witness ==
  /\ cpc = "linked"
  /\ tab_el
  /\ link = PdpUrl
  /\ page_url = ListingUrl
  /\ attempts = << Attempt("click", ListingUrl, TRUE), Attempt("go_back", PdpUrl, TRUE),
                   Attempt("tab_click", ListingUrl, TRUE) >>

\* C18: a call of the click path that raises is caught: extract_cta_link
\* goes to its except clause and returns from there, and what it returns is
\* the URL the page is at; it returns the same for a card with neither a
\* qualifying anchor nor a button
C18_ResolverFailureDegradation ==
  /\ [][ (/\ cpc # "linked"
          /\ cpc' = "linked"
          /\ \/ ResolverFailed(attempts')
             \/ (Qualifying(card') = {} /\ ~card'.button))
         => (link' = page_url' /\ page_url' = page_url) ]_vars
  /\ [][ (~ResolverFailed(attempts) /\ ResolverFailed(attempts')) => cpc' = "except" ]_vars
  /\ [][ cpc = "except" => cpc' \in {"except", "linked"} ]_vars

\* extract_cta_link has returned the product page's URL, where the page
\* stayed because the way back raised
C18_Witness ==
  /\ cpc = "linked"
  /\ attempts # <<>>
  /\ attempts[Len(attempts)] = Attempt("go_back", PdpUrl, FALSE)
  /\ link = PdpUrl
  /\ page_url = PdpUrl
  /\ current_url = ListingUrl

\* C15: clean_price and _clean_price both make the bare digit string of a
\* price written with currency sign, blanks and commas, the same they make
\* of the digit string itself; and both make nothing ("missing") of "N/A",
\* "Not Found", "Error" and the empty text
C15_PriceNormalization ==
  npc = "done" =>
    IF bare # <<>>
    THEN /\ cleaned.card = [none |-> FALSE, value |-> bare]
         /\ cleaned.digits = cleaned.card
         /\ cleaned.rule_card = [none |-> FALSE, value |-> bare]
         /\ cleaned.rule_digits = cleaned.rule_card
    ELSE /\ formatted \in {<<"N/A">>, <<"Not Found">>, <<"Error">>, <<>>}
         /\ cleaned.card = [none |-> TRUE]
         /\ cleaned.rule_card = [none |-> TRUE]

\* both normalizations have been applied to a price written with the sign,
\* a blank and a comma between its two digits
C15_Witness ==
  /\ npc = "done"
  /\ formatted = <<"R", " ", "9", ",", "5">>
  /\ bare = <<"9", "5">>
  /\ cleaned.rule_card = cleaned.card

\* the issues of the validators k..n of the chain, each on the record, end
\* to end
RECURSIVE IssuesFrom(_)
IssuesFrom(k) ==
  IF k > Len(chain) THEN <<>>
  ELSE _validate(chain[k], course_data) \o IssuesFrom(k + 1)

\* C19: for every record and every chain of validators, validate returns the
\* issues of the validators' _validate on the record, put end to end in
\* chain order, and has called the _validate of every validator of the chain
\* exactly once, in chain order, whatever the earlier ones returned
C19_ChainCompleteness ==
  vpc = "done" =>
    /\ returned_issues = IssuesFrom(1)
    /\ rule_log = [k \in 1..Len(chain) |-> k]

\* validate has returned the CRITICAL issue of the purchase rule, which left
\* by its first early return, followed by the issue of the price rule
C19_Witness ==
  /\ vpc = "done"
  /\ chain = <<"CTAValidator", "PriceMismatchValidator">>
  /\ course_data.cta_link = NA
  /\ Len(returned_issues) = 2
  /\ returned_issues[1].severity = "CRITICAL"
  /\ returned_issues[2].type = "PRICE_MISMATCH"

\* the link of a record is missing, or a sentinel
LinkMissing(cd) == cd.cta_link \in {<<>>, <<"N/A">>, <<"Error">>}

\* the link of a record never left the listing page
LinkSamePage(cd) ==
  \/ cd.is_broken = 1
  \/ WithoutTrailingSlashes(cd.cta_link) = WithoutTrailingSlashes(cd.base_url)

\* C20: the purchase rule on its own gives, for every record: one CRITICAL
\* issue and nothing else if cta_link is missing or a sentinel; else one
\* CRITICAL issue and nothing else if is_broken is set or cta_link equals
\* base_url without trailing slashes; else one HIGH CTA_MISSING issue if
\* cta_status is "Not Found"; else nothing. It never gives two issues
C20_CtaRuleDecisionTable ==
  (vpc = "done" /\ chain = <<"CTAValidator">>) =>
    /\ Len(returned_issues) <= 1
    /\ IF LinkMissing(course_data) \/ LinkSamePage(course_data)
       THEN /\ Len(returned_issues) = 1
            /\ returned_issues[1].severity = "CRITICAL"
       ELSE IF course_data.cta_status = <<"Not Found">>
       THEN /\ Len(returned_issues) = 1
            /\ returned_issues[1].severity = "HIGH"
            /\ returned_issues[1].type = "CTA_MISSING"
       ELSE returned_issues = <<>>

\* the purchase rule has returned its one CRITICAL issue for a record whose
\* link is the listing URL with a trailing slash, whose broken flag is not
\* set and whose product page showed no button
C20_Witness ==
  /\ vpc = "done"
  /\ chain = <<"CTAValidator">>
  /\ course_data.cta_link = course_data.base_url \o <<"/">>
  /\ course_data.is_broken = 0
  /\ course_data.cta_status = <<"Not Found">>
  /\ Len(returned_issues) = 1
  /\ returned_issues[1].severity = "CRITICAL"

\* C21: for every record whose cta_link equals its base_url once trailing
\* slashes are stripped, whatever is_broken, cta_status and the prices are,
\* the purchase rule on its own gives exactly one issue, of severity CRITICAL
\* or HIGH, and no CTA_MISSING issue
C21_BrokenLinkDetection ==
  (/\ vpc = "done"
   /\ chain = <<"CTAValidator">>
   /\ WithoutTrailingSlashes(course_data.cta_link)
        = WithoutTrailingSlashes(course_data.base_url)) =>
    /\ Len(returned_issues) = 1
    /\ returned_issues[1].severity \in {"CRITICAL", "HIGH"}
    /\ \A k \in DOMAIN returned_issues : returned_issues[k].type # "CTA_MISSING"

\* the purchase rule has returned one CRITICAL issue and no CTA_MISSING issue
\* for a record whose link is its base_url, whose broken flag is not set,
\* whose product page showed no button and whose prices differ
C21_Witness ==
  /\ vpc = "done"
  /\ chain = <<"CTAValidator">>
  /\ course_data.cta_link = course_data.base_url
  /\ course_data.is_broken = 0
  /\ course_data.cta_status = <<"Not Found">>
  /\ course_data.price_mismatch = 1
  /\ Len(returned_issues) = 1
  /\ returned_issues[1].severity = "CRITICAL"
  /\ returned_issues[1].type = "CTA_BROKEN"

\* a price text is empty or one of the sentinels
PriceAbsent(p) == p \in {<<>>, <<"N/A">>, <<"Not Found">>, <<"Error">>}

\* the severities of the issues validate returned, in order
ReturnedSeverities == [k \in DOMAIN returned_issues |-> returned_issues[k].severity]

IsPrefix(rows, more) ==
  /\ Len(rows) <= Len(more)
  /\ \A k \in 1..Len(rows) : more[k] = rows[k]

\* C30: no step of save_batch updates or deletes a row: every committed row
\* stays in its place with all its field values, also when a record of the
\* same (course_name, cta_link, viewport) key and other values comes in, and
\* the rows of other keys and other viewports stay as they are; the rows a
\* writer has pending are only added to until its commit moves them, as they
\* are, to the end of the table
C30_InsertOnly ==
  [][ /\ IsPrefix(db, db')
      /\ \A w \in Viewports :
           \/ IsPrefix(txn[w], txn'[w]) /\ (db' # db => txn[w] = <<>>)
           \/ txn'[w] = <<>> /\ db' = db \o txn[w] ]_vars

\* a call has returned whose batch held a record of a stored key with another
\* price, and the stored row still shows the price it was inserted with
C30_Witness ==
  \E w \in Viewports : \E k \in 1..Len(courses[w]) : \E i \in 1..Len(db) :
    /\ wpc[w] = "returned"
    /\ SameKey(db[i], courses[w][k])
    /\ db[i].price = "10000"
    /\ courses[w][k].price = "15000"
    /\ \E j \in 1..Len(db) : db[j].viewport # db[i].viewport

\* the CTA issues among a list of issues
CtaIssues(issues) ==
  SelectSeq(issues, LAMBDA x : x.type \in {"CTA_BROKEN", "CTA_MISSING"})

\* the issues the validation stage kept for a course of a viewport
IssuesOf(name, viewport) ==
  SelectSeq(validation_results,
            LAMBDA x : x.course_name = name /\ x.viewport = viewport)

\* the rows of the table that belong to a viewport
RowsOf(viewport) == SelectSeq(db, LAMBDA r : r.viewport = viewport)

\* nothing raised in any pass
NothingRaised == \A w \in Workers : \A k \in DOMAIN hlog[w] : hlog[w][k].ev # "error"

\* the run is over whose one task has the given tag and the URL of a page
\* that shows one card, "Foundation Batch" at 10,000, whose link leads to a
\* product page that shows 15,000 and no purchase button
ScenarioDone(tag) ==
  /\ rpc = "done"
  /\ todo = << <<tag, ListingUrl>> >>
  /\ site.els = <<>>
  /\ site.lists = << << [ name |-> <<"Foundation Batch">>,
                          price |-> <<"R", " ", "1", "0", ",", "0", "0", "0">>,
                          anchors |-> <<Some(<<"/", "foundation">>)>>,
                          button |-> FALSE, target |-> None,
                          pdp_price |-> <<"R", " ", "1", "5", ",", "0", "0", "0">>,
                          pdp_cta |-> <<"Not Found">> ] >> >>
  /\ NothingRaised

\* what the scenario leaves in the table and in the validation results
ScenarioOutcome ==
  \A v \in {"desktop", "mobile"} :
    /\ Len(RowsOf(v)) = 1
    /\ RowsOf(v)[1].course_name = <<"Foundation Batch">>
    /\ RowsOf(v)[1].base_url = ListingUrl
    /\ RowsOf(v)[1].price = <<"R", " ", "1", "0", ",", "0", "0", "0">>
    /\ RowsOf(v)[1].pdp_price = <<"R", " ", "1", "5", ",", "0", "0", "0">>
    /\ RowsOf(v)[1].cta_status = <<"Not Found">>
    /\ RowsOf(v)[1].price_mismatch = 1
    /\ LET issues == IssuesOf(<<"Foundation Batch">>, v)
       IN  /\ Len(issues) = 2
           /\ \E k \in 1..2 : issues[k].type = "CTA_MISSING" /\ issues[k].severity = "HIGH"
           /\ \E k \in 1..2 : issues[k].type = "PRICE_MISMATCH" /\ issues[k].severity = "MEDIUM"

RECURSIVE SumOver(_, _)
SumOver(counts, keys) ==
  IF keys = {} THEN 0
  ELSE LET x == CHOOSE x \in keys : TRUE
       IN  counts[x] + SumOver(counts, keys \ {x})

\* C25: once the validation pass is summarised, the summary holds
\* total_issues, equal to the length of the issue list, and the aggregates
\* by_type, by_severity and by_viewport, and the counts of each aggregate add
\* up to total_issues (nothing and zero when there are no issues)
C25_ReportingData ==
  rpc = "done" =>
    /\ summary.total_issues = Len(validation_results)
    /\ \A a \in {"by_type", "by_severity", "by_viewport"} :
         /\ a \in DOMAIN summary
         /\ SumOver(summary[a], DOMAIN summary[a]) = summary.total_issues

\* the keys of the cards worker w has read by name in the task it is at
KeysRead(w) ==
  { <<hlog[w][k].scope_name, hlog[w][k].card_name>> :
      k \in {m \in DOMAIN hlog[w] : /\ hlog[w][m].ev = "read"
                                    /\ hlog[w][m].task = tno[w]
                                    /\ hlog[w][m].card_name # <<"N/A">>} }

\* two entries of a log are about a card of one name in a scope of one name
\* of one task
SameCardKey(e, f) ==
  /\ e.task = f.task
  /\ e.scope_name = f.scope_name
  /\ e.card_name = f.card_name

\* C26: in every pass, a card whose name reads "N/A" is neither resolved nor
\* verified nor put into a batch or the table; within one task, no two cards
\* of one (scope name, card name) pair are resolved, none are verified twice
\* and no batch of the task holds two records of the pair; and the visited
\* set of the handler at work holds the pairs read in this task by this
\* worker and nothing from another task or another worker
C26_IntraRunCardDedup ==
  /\ \A w \in Workers :
       /\ \A k \in DOMAIN hlog[w] :
            /\ hlog[w][k].ev \in {"resolve", "verify"} => hlog[w][k].card_name # <<"N/A">>
            /\ \A n \in DOMAIN hlog[w][k].batch :
                 hlog[w][k].batch[n].course_name # <<"N/A">>
       /\ \A k, m \in DOMAIN hlog[w] :
            (/\ hlog[w][k].ev \in {"resolve", "verify"}
             /\ hlog[w][k].ev = hlog[w][m].ev
             /\ SameCardKey(hlog[w][k], hlog[w][m])) => k = m
       /\ \A k, m \in DOMAIN hlog[w] :
            (/\ hlog[w][k].ev = "save"
             /\ hlog[w][m].ev = "save"
             /\ hlog[w][k].task = hlog[w][m].task
             /\ hlog[w][k].scope_name = hlog[w][m].scope_name) =>
              \A n \in DOMAIN hlog[w][k].batch : \A o \in DOMAIN hlog[w][m].batch :
                hlog[w][k].batch[n].course_name = hlog[w][m].batch[o].course_name
                  => k = m /\ n = o
       /\ hpc[w] \in {"scope", "card", "name", "resolve", "verify"}
            => handler_of[w].processed_keys = KeysRead(w)
  /\ \A i \in DOMAIN db : db[i].course_name # <<"N/A">>

\* a worker is in its second task of the same page and has just resolved
\* there a card it had resolved in the first task, where it had skipped a
\* card without a name before it and a card of the same name after it; the
\* other worker has resolved the card of that name as well
C26_Witness ==
  \E w \in Workers :
    /\ tno[w] = 2
    /\ hpc[w] = "verify"
    /\ Len(todo) = 2
    /\ \E k \in DOMAIN hlog[w] :
         /\ hlog[w][k].ev = "resolve"
         /\ hlog[w][k].task = 1
         /\ hlog[w][k].card_name = cur[w].name
         /\ hlog[w][k - 2].ev = "read" /\ hlog[w][k - 2].card_name = <<"N/A">>
         /\ hlog[w][k + 2].ev = "read" /\ hlog[w][k + 2].card_name = cur[w].name
         /\ hlog[w][k + 3].ev = "save"
    /\ \E o \in Workers \ {w} : \E j \in DOMAIN hlog[o] :
         hlog[o][j].ev = "resolve" /\ hlog[o][j].card_name = cur[w].name

\* the card list the page shows when the tab or pill of the given name is the
\* active one
ShownBy(name) ==
  LET k == CHOOSE k \in DOMAIN site.els : site.els[k].text = name
  IN  site.els[k].shows

\* C27: in every handler, a card of a scope that has a control is read by
\* name right after a click on that control, made after the card before it
\* was resolved and verified, and at that read the page shows the cards of
\* the scope being iterated
C27_ScopeReassertion ==
  \A w \in Workers : \A k \in DOMAIN hlog[w] :
    (/\ hlog[w][k].ev = "read"
     /\ \E j \in DOMAIN site.els : site.els[j].text = hlog[w][k].scope_name) =>
      /\ k > 1
      /\ hlog[w][k - 1].ev = "click"
      /\ hlog[w][k - 1].task = hlog[w][k].task
      /\ hlog[w][k - 1].scope = hlog[w][k].scope
      /\ hlog[w][k - 1].i = hlog[w][k].i
      /\ hlog[w][k].active = ShownBy(hlog[w][k].scope_name)

\* the names of the scopes of the page for the handler of a tag, in the
\* order the page lists them in
ScopeNamesInPageOrder(tag) ==
  LET Named(e) ==
        CASE tag = <<"HOME">> ->
               e.tag = "tab_item" /\ e.text \in {<<"JEE">>, <<"NEET">>, <<"Classes 6-10">>}
          [] tag = <<"PLP_PAGES">> ->
               e.tag = "button" /\ e.text \in {<<"Live">>, <<"Recorded">>,
                                               <<"Online Test Series">>,
                                               <<"Offline Test Series">>}
          [] tag = <<"STREAM_PAGES">> ->
               /\ e.tag \in {"button", "div"}
               /\ Len(e.text) = 2
               /\ e.text[1] = "Class "
               /\ e.text[2] \in {"0", "1", "2", "3", "4", "5", "6", "7", "8", "9"}
      named == SelectSeq(site.els, Named)
  IN  IF named = <<>>
      THEN << IF tag = <<"HOME">> THEN <<"Main">> ELSE <<"Default">> >>
      ELSE [j \in 1..Len(named) |-> named[j].text]

\* entry e of a log comes before or at entry f in the order of scopes and,
\* within a scope, of cards
NotAfter(e, f) == e.scope < f.scope \/ (e.scope = f.scope /\ e.i <= f.i)

\* the entries of a log that belong to the work on scopes and cards
CardWork == {"scope", "click", "read", "resolve", "verify", "save"}

\* C28: in every pass the work of a task goes scope by scope in the order
\* the page lists the scopes in, and within a scope card by card in
\* increasing index from the first: a card that is not skipped is resolved
\* right after its name is read and verified right after it is resolved,
\* before anything is done for another card; a scope is entered only when
\* the scope before it has been saved, and it is saved only when every one
\* of its cards has been read
C28_ProcessingOrder ==
  \A w \in Workers : \A k \in DOMAIN hlog[w] :
    LET e == hlog[w][k]
    IN  /\ (k > 1 /\ e.ev \in CardWork /\ hlog[w][k - 1].ev \in CardWork
               /\ hlog[w][k - 1].task = e.task) => NotAfter(hlog[w][k - 1], e)
        /\ (e.ev = "resolve") =>
             /\ hlog[w][k - 1].ev = "read"
             /\ SameCardKey(hlog[w][k - 1], e) /\ hlog[w][k - 1].i = e.i
             /\ hlog[w][k - 1].scope = e.scope
        /\ (e.ev = "verify") =>
             /\ hlog[w][k - 1].ev = "resolve"
             /\ SameCardKey(hlog[w][k - 1], e) /\ hlog[w][k - 1].i = e.i
             /\ hlog[w][k - 1].scope = e.scope
        /\ (e.ev = "resolve" /\ k < Len(hlog[w])) => hlog[w][k + 1].ev = "verify"
        /\ (e.ev = "read" /\ e.i > 1) =>
             \E m \in 1..(k - 1) :
               /\ hlog[w][m].ev = "read" /\ hlog[w][m].task = e.task
               /\ hlog[w][m].scope = e.scope /\ hlog[w][m].i = e.i - 1
        /\ (e.ev = "scope") =>
             /\ e.scope_name = ScopeNamesInPageOrder(todo[e.task][1])[e.scope]
             /\ e.scope > 1 =>
                  /\ hlog[w][k - 1].ev = "save"
                  /\ hlog[w][k - 1].task = e.task
                  /\ hlog[w][k - 1].scope = e.scope - 1
        /\ (e.ev = "save") =>
             \A n \in 1..(e.i - 1) :
               \E m \in 1..(k - 1) :
                 /\ hlog[w][m].ev = "read" /\ hlog[w][m].task = e.task
                 /\ hlog[w][m].scope = e.scope /\ hlog[w][m].i = n

\* a pass has entered the second scope of a page after it resolved and
\* verified two cards of the first scope, one after the other, and saved them
C28_Witness ==
  \E w \in Workers : \E k \in DOMAIN hlog[w] :
    /\ k > 8
    /\ hlog[w][k].ev = "scope"
    /\ hlog[w][k].scope = 2
    /\ hlog[w][k - 1].ev = "save"
    /\ Len(hlog[w][k - 1].batch) = 2
    /\ hlog[w][k - 2].ev = "verify" /\ hlog[w][k - 2].i = 2
    /\ \E m \in 1..(k - 3) : hlog[w][m].ev = "verify" /\ hlog[w][m].i = 1
                               /\ hlog[w][m].scope = 1

\* the records worker w made for a scope of a task, in the order it made
\* them, from entry k of its log on
RECURSIVE RecordsMade(_, _, _, _)
RecordsMade(w, task, scope, k) ==
  IF k > Len(hlog[w]) THEN <<>>
  ELSE (IF hlog[w][k].ev = "verify" /\ hlog[w][k].task = task /\ hlog[w][k].scope = scope
        THEN hlog[w][k].batch ELSE <<>>) \o RecordsMade(w, task, scope, k + 1)

\* C29: in every pass, save_batch is called at most once for a scope, and
\* exactly once for a scope that was entered and left without a raise; the
\* call comes after the last card of the scope was read and hands over the
\* records of the cards of the scope that were not skipped, in the order
\* they were made, each with the task's URL as base_url and the worker's
\* label as viewport; and every row of the table is a record of a batch
\* that was handed over, so that no record is stored before its scope is
\* complete
C29_OneBatchPerScope ==
  /\ \A w \in Workers : \A k \in DOMAIN hlog[w] :
       LET e == hlog[w][k]
       IN  /\ (e.ev = "save") =>
                /\ e.batch = RecordsMade(w, e.task, e.scope, 1)
                /\ \A n \in DOMAIN e.batch :
                     /\ e.batch[n].base_url = todo[e.task][2]
                     /\ e.batch[n].viewport = ViewportLabels[w]
                /\ \A m \in DOMAIN hlog[w] :
                     (/\ hlog[w][m].ev = "save" /\ hlog[w][m].task = e.task
                      /\ hlog[w][m].scope = e.scope) => m = k
                /\ \A m \in DOMAIN hlog[w] :
                     (/\ hlog[w][m].ev \in {"read", "resolve", "verify"}
                      /\ hlog[w][m].task = e.task /\ hlog[w][m].scope = e.scope) => m < k
           /\ (e.ev = "scope") =>
                \/ \E m \in (k + 1)..Len(hlog[w]) :
                     /\ hlog[w][m].ev = "save" /\ hlog[w][m].task = e.task
                     /\ hlog[w][m].scope = e.scope
                \/ \E m \in (k + 1)..Len(hlog[w]) :
                     hlog[w][m].ev = "error" /\ hlog[w][m].task = e.task
                \/ /\ tno[w] = e.task /\ s_idx[w] = e.scope
                   /\ hpc[w] \in {"card", "name", "resolve", "verify"}
  /\ \A i \in DOMAIN db :
       \E w \in Workers : \E k \in DOMAIN hlog[w] : \E n \in DOMAIN hlog[w][k].batch :
         /\ hlog[w][k].ev = "save"
         /\ hlog[w][k].batch[n] = db[i]
         /\ ViewportLabels[w] = db[i].viewport

\* a pass has saved the batch of a scope of three cards, of which one had no
\* name and one had the name of the card before it: the batch holds one
\* record
C29_Witness ==
  \E w \in Workers : \E k \in DOMAIN hlog[w] :
    /\ hlog[w][k].ev = "save"
    /\ hlog[w][k].i = 4
    /\ Len(hlog[w][k].batch) = 1
    /\ \E i \in DOMAIN db : db[i] = hlog[w][k].batch[1]

\* one of the three conditions of the broken-link rule holds for a record
LinkBroken(cd) ==
  \/ WithoutTrailingSlashes(cd.cta_link) = WithoutTrailingSlashes(cd.base_url)
  \/ cd.is_broken = 1
  \/ cd.cta_link \in {<<>>, <<"N/A">>, <<"Error">>}

\* the types of the issues validate returned, in order
ReturnedTypes == [k \in DOMAIN returned_issues |-> returned_issues[k].type]

\* C34: the broken-link rule on its own gives, for every record, exactly one
\* BROKEN_LINK issue when cta_link equals base_url without trailing slashes,
\* or is_broken is 1, or cta_link is missing or a sentinel, and nothing
\* otherwise, never two issues; and chained before the price rule, a record
\* that is broken and has a card price and no PDP price gives the BROKEN_LINK
\* issue followed by one PRICE_MISMATCH issue
C34_BrokenLinkRule ==
  /\ (vpc = "done" /\ chain = <<"BrokenLinkValidator">>) =>
       ReturnedTypes = IF LinkBroken(course_data) THEN <<"BROKEN_LINK">> ELSE <<>>
  /\ (/\ vpc = "done"
      /\ chain = <<"BrokenLinkValidator", "PriceMismatchValidator">>
      /\ LinkBroken(course_data)
      /\ ~PriceAbsent(course_data.price)
      /\ PriceAbsent(course_data.pdp_price)) =>
       ReturnedTypes = <<"BROKEN_LINK", "PRICE_MISMATCH">>

\* the chain of the broken-link rule and the price rule has returned two
\* issues for a record whose link is its base_url with a slash at its end,
\* whose broken flag is set, whose card shows a price and whose product page
\* shows none
C34_Witness ==
  /\ vpc = "done"
  /\ chain = <<"BrokenLinkValidator", "PriceMismatchValidator">>
  /\ course_data.cta_link = course_data.base_url \o <<"/">>
  /\ course_data.is_broken = 1
  /\ course_data.price = <<"R", " ", "9", ",", "5">>
  /\ course_data.pdp_price = <<"Not Found">>
  /\ course_data.price_mismatch = 0
  /\ ReturnedTypes = <<"BROKEN_LINK", "PRICE_MISMATCH">>

\* the records the handlers have made so far, in any pass
RecordsOfHandlers ==
  UNION { UNION { { hlog[w][k].batch[n] : n \in DOMAIN hlog[w][k].batch } :
                    k \in { m \in DOMAIN hlog[w] : hlog[w][m].ev = "verify" } } :
            w \in Workers }

\* C35: for every record a handler makes, price_mismatch is 1 exactly when
\* the price rule's normalization gives a digit string for the card price and
\* for the PDP price and the two differ; clean_price and _clean_price give
\* the same for either price text; and the price rule never reports from its
\* own comparison of the digit strings
C35_PriceChecksAgree ==
  \A record \in RecordsOfHandlers :
    LET on_card == _clean_price(record.price)
        on_pdp == _clean_price(record.pdp_price)
    IN  /\ record.price_mismatch = 1
             <=> (~on_card.none /\ ~on_pdp.none /\ on_card.value # on_pdp.value)
        /\ clean_price(record.price) = on_card
        /\ clean_price(record.pdp_price) = on_pdp
        /\ \A k \in DOMAIN PriceMismatchValidator_validate(InsertRow(record)) :
             PriceMismatchValidator_validate(InsertRow(record))[k].message
               # "Numeric price values don't match"

\* the page shows nothing the handler of a tag takes for a tab or a pill
NothingRecognised(tag) ==
  \A j \in DOMAIN site.els :
    LET e == site.els[j]
    IN  CASE tag = <<"HOME">> ->
               ~(e.tag = "tab_item" /\ e.text \in {<<"JEE">>, <<"NEET">>, <<"Classes 6-10">>})
          [] tag = <<"PLP_PAGES">> ->
               ~(e.tag = "button" /\ e.text \in {<<"Live">>, <<"Recorded">>,
                                                 <<"Online Test Series">>,
                                                 <<"Offline Test Series">>})
          [] tag = <<"STREAM_PAGES">> ->
               ~(e.tag \in {"button", "div"} /\ Len(e.text) = 2 /\ e.text[1] = "Class "
                 /\ e.text[2] \in {"0", "1", "2", "3", "4", "5", "6", "7", "8", "9"})

\* the entries of worker w's log that are about a task and of one kind
EntriesOf(w, task, ev) ==
  { k \in DOMAIN hlog[w] : hlog[w][k].task = task /\ hlog[w][k].ev = ev }

\* C32: for every task of a handler whose page shows no tab or pill the
\* handler recognises, the handler iterates one scope and no more, named
\* "Main" on the homepage and "Default" on listing and stream pages, clicks
\* no scope control for it, reads each card of the page once, and, when its
\* scrape returns, has handed the cards' records to save_batch in one call
\* and the table holds a row of the key of each
C32_ImplicitSingleScope ==
  \A w \in Workers : \A t \in DOMAIN todo :
    (todo[t][1] \in {<<"HOME">>, <<"PLP_PAGES">>, <<"STREAM_PAGES">>}
       /\ NothingRecognised(todo[t][1])) =>
      /\ Cardinality(EntriesOf(w, t, "scope")) <= 1
      /\ \A k \in EntriesOf(w, t, "scope") :
           /\ hlog[w][k].scope = 1
           /\ hlog[w][k].scope_name
                = IF todo[t][1] = <<"HOME">> THEN <<"Main">> ELSE <<"Default">>
      /\ EntriesOf(w, t, "click") = {}
      /\ \A k, m \in EntriesOf(w, t, "read") : hlog[w][k].i = hlog[w][m].i => k = m
      /\ Cardinality(EntriesOf(w, t, "save")) <= 1
      /\ EntriesOf(w, t, "returned") # {} =>
           /\ Cardinality(EntriesOf(w, t, "scope")) = 1
           /\ { hlog[w][k].i : k \in EntriesOf(w, t, "read") } = 1..Len(site.lists[1])
           /\ Cardinality(EntriesOf(w, t, "save")) = 1
           /\ \A k \in EntriesOf(w, t, "save") :
                /\ hlog[w][k].scope = 1
                /\ hlog[w][k].batch = RecordsMade(w, t, 1, 1)
                /\ \A n \in DOMAIN hlog[w][k].batch :
                     \E i \in DOMAIN db : SameKey(db[i], hlog[w][k].batch[n])

\* a pass has returned from the scrape of a homepage whose only tab is none
\* of the three categories: one scope "Main", three cards read, no click, one
\* batch of one record saved
C32_Witness ==
  \E w \in Workers :
    /\ todo = << <<<<"HOME">>, HomeUrl>> >>
    /\ site.els # <<>>
    /\ EntriesOf(w, 1, "returned") # {}
    /\ Cardinality(EntriesOf(w, 1, "read")) = 3
    /\ \E k \in EntriesOf(w, 1, "save") :
         hlog[w][k].scope_name = <<"Main">> /\ Len(hlog[w][k].batch) = 1

\* entry k of worker w's log is a raise inside a scope the handler had entered
RaisedInScope(w, k) ==
  /\ hlog[w][k].ev = "error"
  /\ \E m \in 1..(k - 1) :
       /\ hlog[w][m].ev = "scope"
       /\ hlog[w][m].task = hlog[w][k].task
       /\ hlog[w][m].scope = hlog[w][k].scope

\* the keys of the records that worker w handed to save_batch
KeysHanded(w) ==
  UNION { { <<hlog[w][k].batch[n].course_name, hlog[w][k].batch[n].cta_link>> :
              n \in DOMAIN hlog[w][k].batch } :
            k \in { m \in DOMAIN hlog[w] : hlog[w][m].ev = "save" } }

\* C36: when a handler raises while it works on a card of scope s, no batch
\* of scope s of that task is ever handed to save_batch, no later scope of
\* the task is entered and nothing more is done for the task, while the
\* batches of the scopes saved before s are in the table; and the table
\* never holds part of a batch: the rows of a viewport are those of the keys
\* of the batches its worker handed over, every one of them
C36_LossOnMidScopeFailure ==
  \A w \in Workers :
    /\ \A k \in DOMAIN hlog[w] :
         RaisedInScope(w, k) =>
           /\ \A m \in DOMAIN hlog[w] :
                (hlog[w][m].task = hlog[w][k].task /\ hlog[w][m].ev = "save")
                  => hlog[w][m].scope < hlog[w][k].scope /\ m < k
           /\ \A m \in DOMAIN hlog[w] :
                (hlog[w][m].task = hlog[w][k].task /\ hlog[w][m].ev = "scope")
                  => hlog[w][m].scope <= hlog[w][k].scope
           /\ \A m \in DOMAIN hlog[w] : hlog[w][m].task = hlog[w][k].task => m <= k
           /\ \A j \in 1..(hlog[w][k].scope - 1) :
                \E m \in 1..(k - 1) :
                  /\ hlog[w][m].ev = "save"
                  /\ hlog[w][m].task = hlog[w][k].task
                  /\ hlog[w][m].scope = j
    /\ { <<db[i].course_name, db[i].cta_link>> :
           i \in { j \in DOMAIN db : db[j].viewport = ViewportLabels[w] } } = KeysHanded(w)

\* a pass has raised at the second card of the second scope of a page, after
\* it saved the two records of the first scope: the record it had made for
\* the first card of the second scope is in no batch and not in the table
C36_Witness ==
  \E w \in Workers : \E k \in DOMAIN hlog[w] :
    /\ RaisedInScope(w, k)
    /\ hlog[w][k].scope = 2
    /\ hlog[w][k].i = 2
    /\ hlog[w][k - 1].ev = "verify"
    /\ hlog[w][k - 1].scope = 2
    /\ <<hlog[w][k - 1].batch[1].course_name, hlog[w][k - 1].batch[1].cta_link>>
         \notin KeysHanded(w)
    /\ \E m \in 1..(k - 1) : hlog[w][m].ev = "save" /\ Len(hlog[w][m].batch) = 2
    /\ Cardinality({ i \in DOMAIN db : db[i].viewport = ViewportLabels[w] }) = 2

\* the record a handler makes of the card at hand once verify_pdp has
\* returned, as the table would hold it
RecordOfCard ==
  [ base_url |-> original_url, course_name |-> <<"JEE Main">>, cta_link |-> pdp_url,
    price |-> card_price, pdp_price |-> verdict[1], cta_status |-> verdict[2],
    is_broken |-> verdict[3], price_mismatch |-> verdict[4], viewport |-> "desktop" ]

\* C37: whenever verify_pdp returns "N/A" or "Error" for the PDP price, it
\* returns the same sentinel for cta_status, is_broken = 1 and
\* price_mismatch = 0, and the purchase rule on the record of that card
\* gives a CRITICAL issue and no CTA_MISSING issue
C37_FailedVerificationSurfaced ==
  (cpc = "done" /\ verdict[1] \in {<<"N/A">>, <<"Error">>}) =>
    /\ verdict[2] = verdict[1]
    /\ verdict[3] = 1
    /\ verdict[4] = 0
    /\ LET issues == CTAValidator_validate(RecordOfCard)
       IN  /\ \E k \in DOMAIN issues : issues[k].severity = "CRITICAL"
           /\ \A k \in DOMAIN issues : issues[k].type # "CTA_MISSING"

\* verify_pdp has returned ("Error", "Error", 1, 0) for a link to a product
\* page, after the page had got there and the inspection raised
C37_Witness ==
  /\ cpc = "done"
  /\ verdict = <<ErrorText, ErrorText, 1, 0>>
  /\ pdp_url = PdpUrl
  /\ original_url = ListingUrl
  /\ \E k \in DOMAIN attempts : attempts[k] = Attempt("extract", PdpUrl, FALSE)

\* the issues the rules of the default chain give for a row, each with the
\* row's viewport
IssuesOfRow(row) ==
  LET issues == validate_course(row)
  IN  [ k \in DOMAIN issues |->
          [ type |-> issues[k].type, severity |-> issues[k].severity,
            message |-> issues[k].message, course_name |-> issues[k].course_name,
            field |-> issues[k].field, viewport |-> row.viewport ] ]

\* the issues of the rows from the i-th on, row after row
RECURSIVE IssuesOfRowsFrom(_)
IssuesOfRowsFrom(i) ==
  IF i > Len(db) THEN <<>> ELSE IssuesOfRow(db[i]) \o IssuesOfRowsFrom(i + 1)

\* C33: the list validate_all_courses holds after a call is the issues of
\* the rows of the table, row after row, each issue with the viewport of its
\* row, so that a second call on the same table leaves the list as the first
\* made it; and no call of it, and nothing after it, changes the table
C33_ValidationRegenerates ==
  /\ [](rpc \in {"validated", "revalidated", "done"}
          => validation_results = IssuesOfRowsFrom(1))
  /\ [][ (rpc = "validated" /\ rpc' = "revalidated")
           => validation_results' = validation_results ]_vars
  /\ [][ (rpc' \in {"validated", "revalidated", "done"}) => db' = db ]_vars

\* validate_all_courses has been called a second time on a table of two
\* rows, one of each viewport, and holds two issues for each
C33_Witness ==
  /\ rpc = "revalidated"
  /\ Len(db) = 2
  /\ db[1].viewport # db[2].viewport
  /\ Len(validation_results) = 4
  /\ \A v \in {"desktop", "mobile"} :
       Cardinality({ k \in DOMAIN validation_results : validation_results[k].viewport = v }) = 2

\* what belongs to the pass of worker w: its place, its handler with the
\* visited set, the scopes and controls it found, its loop indices, the card
\* at hand, its batch, what the page of its session shows, and its log
OwnState(w) ==
  <<hpc[w], tno[w], handler_of[w], scopes[w], s_idx[w], n_cards[w], c_idx[w], cur[w],
    scraped_batch[w], active[w], hlog[w]>>

\* entry k of worker w's log is a read of a name the worker had not read
\* before in the same scope of the same task
FirstReadOfName(w, k) ==
  /\ hlog[w][k].ev = "read"
  /\ hlog[w][k].card_name # <<"N/A">>
  /\ \A m \in 1..(k - 1) :
       ~(hlog[w][m].ev = "read" /\ SameCardKey(hlog[w][m], hlog[w][k]))

\* C31: while the passes run, a step changes what belongs to the pass of one
\* worker at most, and apart from that nothing but the table; the handler a
\* worker uses carries the worker's own label; and what a worker does with a
\* card follows from its own pass alone: the card it reads is the one its own
\* page shows, and it goes on to resolve the card exactly when it has not
\* itself read the name before in that scope, whatever the other worker has
\* read, clicked or saved
C31_WorkerIsolation ==
  /\ [][ (rpc = "passes" /\ rpc' = "passes") =>
           /\ \A w, o \in Workers :
                (w # o /\ OwnState(w)' # OwnState(w)) => OwnState(o)' = OwnState(o)
           /\ <<todo, site, validation_results, summary>>'
                = <<todo, site, validation_results, summary>> ]_vars
  /\ [](\A w \in Workers :
          /\ hpc[w] \notin {"unborn", "task", "closed"}
               => handler_of[w].viewport = ViewportLabels[w]
          /\ \A k \in DOMAIN hlog[w] :
               hlog[w][k].ev = "read" =>
                 /\ hlog[w][k].card_name
                      = (IF hlog[w][k].i <= Len(site.lists[hlog[w][k].active])
                         THEN site.lists[hlog[w][k].active][hlog[w][k].i].name
                         ELSE <<"N/A">>)
                 /\ k < Len(hlog[w]) =>
                      (hlog[w][k + 1].ev = "resolve" <=> FirstReadOfName(w, k)))

\* both workers are at work on a card of the same name in the same scope of
\* the same task, each with its own handler and its own visited set, after
\* the first worker has clicked a control on the page of its own session
C31_Witness ==
  /\ rpc = "passes"
  /\ \A w \in Workers : hpc[w] = "verify"
  /\ cur[1].name = cur[2].name
  /\ tno[1] = tno[2]
  /\ s_idx[1] = s_idx[2]
  /\ handler_of[1].processed_keys = handler_of[2].processed_keys
  /\ handler_of[1].viewport # handler_of[2].viewport
  /\ \E k \in DOMAIN hlog[1] : hlog[1][k].ev = "click"

\* the tasks a file gives when a line in brackets opens a category, named in
\* upper case, for the URL lines up to the next such line, a URL line under a
\* category gives one task and every other line gives none and leaves the
\* category as it is; empty_opens says whether brackets around nothing count
\* as such a line
RECURSIVE ClaimedTasks(_, _, _)
ClaimedTasks(lines, category, empty_opens) ==
  IF lines = <<>> THEN <<>>
  ELSE LET line == Strip(Head(lines), Whitespace)
           opens == HeaderMatch(line) /\ (empty_opens \/ Group1(line) # <<>>)
       IN IF opens
            THEN ClaimedTasks(Tail(lines), Some(Upper(Group1(line))), empty_opens)
          ELSE IF StartsWithHttp(line) /\ ~category.none
            THEN << <<category.value, line>> >>
                   \o ClaimedTasks(Tail(lines), category, empty_opens)
          ELSE ClaimedTasks(Tail(lines), category, empty_opens)

\* C38: once the task file is read, the task list is the one the lines give
\* in file order: a [CATEGORY] line sets the category, in upper case, of the
\* URL lines that follow up to the next header, every URL line after a header
\* gives exactly one task, a URL line before any header gives none, and blank
\* and other lines give no task and leave the category as it is, whether or
\* not brackets around nothing are taken for a header; and every pass that
\* was submitted was given this same list
C38_TaskListParsing ==
  (fpc # "start" /\ urls_file.exists) =>
    /\ \E empty_opens \in BOOLEAN :
         parsed = ClaimedTasks(urls_file.lines, None, empty_opens)
    /\ \A w \in Workers : ~given[w].none => given[w].value = parsed

====
